---------------------------- MODULE Spec2Model ----------------------------
(***************************************************************************)
(* Swing Notes API: the authentication layer and the ownership-scoped note *)
(* service, as a state machine.                                            *)
(*                                                                         *)
(* The state is the PostgreSQL content (tables users and notes), the wall  *)
(* clock, the tokens clients hold, and the requests that are suspended at  *)
(* an `await pool.query(...)`.  Every action is one handler run from one   *)
(* suspension point to the next: the synchronous code (authMiddleware,     *)
(* Joi validation, the service checks) together with the one SQL statement *)
(* that follows it.  A statement is atomic; statements of different        *)
(* requests interleave freely.                                             *)
(*                                                                         *)
(* The storage engine raises the errors its schema defines (unique         *)
(* violation on users.username, foreign-key violation on notes.user_id);   *)
(* an unavailable database is not modelled.  Note operations are modelled  *)
(* as the notes router defines them (authMiddleware, then the controller). *)
(*                                                                         *)
(* The database clock is a counter, dbNow: every statement that reads it   *)
(* (an INSERT's CURRENT_TIMESTAMP defaults, an UPDATE's NOW()) gets a      *)
(* reading later than all readings before.  NOW() is the start time of the *)
(* statement's transaction, which precedes the moment the row is written.  *)
(***************************************************************************)
EXTENDS Integers, Sequences, FiniteSets, TLC

(***************************************************************************)
(* Bounds of the model.                                                    *)
(***************************************************************************)
\* user ids uuid_generate_v4() hands out during a run
MaxUsers == 3
\* note ids uuid_generate_v4() hands out during a run
MaxNotes == 2
\* last clock value; one clock unit is one hour
MaxTime == 1
\* requests that can be suspended at a storage call at the same time
MaxInFlight == 2
\* readings of the database clock (CURRENT_TIMESTAMP, NOW()) during a run
MaxStamps == 3

(***************************************************************************)
(* Program constants.                                                      *)
(***************************************************************************)
\* jwtConfig.lifetime: "1h", in clock units
JwtLifetime == 1
\* bcrypt.genSalt(10)
SaltRounds == 10

UserIds == 1..MaxUsers
NoteIds == 1..MaxNotes
Slots == 1..MaxInFlight
\* the value of req.user when authMiddleware has not set it
NoUser == 0
\* an empty JavaScript object: {}
EmptyObject == [k \in {} |-> ""]

-----------------------------------------------------------------------------
(***************************************************************************)
(* Errors and the boundary.                                                *)
(***************************************************************************)
\* new AppError(message, statusCode)
AppError(message, statusCode) ==
  [ isAppError |-> TRUE,
    message    |-> message,
    statusCode |-> statusCode,
    status     |-> IF statusCode \div 100 = 4 THEN "fail" ELSE "error" ]

\* an error thrown by a library: a plain Error with a name and a message
LibError(name, message) ==
  [ isAppError |-> FALSE, name |-> name, message |-> message ]

\* errorHandler(err, req, res, next): the response it sends.  An error that
\* is no AppError has no statusCode and no status of its own; the 23505
\* branch needs err.code, which only an error of the pg driver carries.
errorHandler(err) ==
  IF err.isAppError
  THEN [ statusCode |-> err.statusCode,
         body |-> [ status |-> err.status, message |-> err.message ] ]
  ELSE IF "code" \in DOMAIN err /\ err.code = "23505"
          /\ "constraint" \in DOMAIN err /\ err.constraint = "users_username_key"
  THEN [ statusCode |-> 409,
         body |-> [ status |-> "fail", message |-> "Username already exists." ] ]
  ELSE [ statusCode |-> 500,
         body |-> [ status |-> "error",
                    message |-> IF err.message # "" THEN err.message
                                ELSE "Something went wrong!" ] ]

\* res.status(code).json({status: "success", message, data})
Success(code, message, data) ==
  [ statusCode |-> code,
    body |-> [ status |-> "success", message |-> message, data |-> data ] ]

\* res.status(204).send()
NoContent == [ statusCode |-> 204, body |-> EmptyObject ]

-----------------------------------------------------------------------------
(***************************************************************************)
(* Input validation (Joi).  A request body is a JavaScript object: a       *)
(* function whose domain is the set of keys present.  Usernames and        *)
(* passwords are strings; titles, texts and search terms are sequences of  *)
(* characters, because the title search looks inside them.                 *)
(***************************************************************************)
\* Joi.string().min(3).max(50).required() with its messages; min or max 0: no such rule
StringRule(key, min, max, required, msgMin, msgMax, msgEmpty, msgRequired) ==
  [ key |-> key, min |-> min, max |-> max, required |-> required,
    msgMin |-> msgMin, msgMax |-> msgMax, msgEmpty |-> msgEmpty,
    msgRequired |-> msgRequired ]

\* signupSchema whose username has no .min(3)
signupSchemaNoUsernameMinimum ==
  [ keys |-> << StringRule("username", 0, 50, TRUE,
                           "Username must be at least 3 characters long.",
                           "Username cannot exceed 50 characters.",
                           "Username cannot be empty.",
                           "Username is required."),
                StringRule("password", 6, 0, TRUE,
                           "Password must be at least 6 characters long.",
                           "",
                           "Password cannot be empty.",
                           "Password is required.") >>,
    minKeys |-> 0 ]

signupSchema ==
  [ keys |-> << StringRule("username", 3, 50, TRUE,
                           "Username must be at least 3 characters long.",
                           "Username cannot exceed 50 characters.",
                           "Username cannot be empty.",
                           "Username is required."),
                StringRule("password", 6, 0, TRUE,
                           "Password must be at least 6 characters long.",
                           "",
                           "Password cannot be empty.",
                           "Password is required.") >>,
    minKeys |-> 0 ]

loginSchema ==
  [ keys |-> << StringRule("username", 0, 0, TRUE, "", "",
                           "Username cannot be empty.",
                           "Username is required."),
                StringRule("password", 0, 0, TRUE, "", "",
                           "Password cannot be empty.",
                           "Password is required.") >>,
    minKeys |-> 0 ]

\* createNoteSchema whose text has no .max(300)
createNoteSchemaNoTextMaximum ==
  [ keys |-> << StringRule("title", 1, 50, TRUE,
                           "Title must be at least 1 character long.",
                           "Title cannot exceed 50 characters.",
                           "Title cannot be empty.",
                           "Title is required."),
                StringRule("text", 1, 0, TRUE,
                           "Text must be at least 1 character long.",
                           "Text cannot exceed 300 characters.",
                           "Text cannot be empty.",
                           "Text is required.") >>,
    minKeys |-> 0 ]

createNoteSchema ==
  [ keys |-> << StringRule("title", 1, 50, TRUE,
                           "Title must be at least 1 character long.",
                           "Title cannot exceed 50 characters.",
                           "Title cannot be empty.",
                           "Title is required."),
                StringRule("text", 1, 300, TRUE,
                           "Text must be at least 1 character long.",
                           "Text cannot exceed 300 characters.",
                           "Text cannot be empty.",
                           "Text is required.") >>,
    minKeys |-> 0 ]

\* updateNoteSchema without its .min(1)
updateNoteSchemaNoMinimum ==
  [ keys |-> << StringRule("title", 1, 50, FALSE,
                           "Title must be at least 1 character long.",
                           "Title cannot exceed 50 characters.",
                           "\"title\" is not allowed to be empty",
                           ""),
                StringRule("text", 1, 300, FALSE,
                           "Text must be at least 1 character long.",
                           "Text cannot exceed 300 characters.",
                           "\"text\" is not allowed to be empty",
                           "") >>,
    minKeys |-> 0 ]

\* no "string.empty" message of its own: Joi's default applies
updateNoteSchema ==
  [ keys |-> << StringRule("title", 1, 50, FALSE,
                           "Title must be at least 1 character long.",
                           "Title cannot exceed 50 characters.",
                           "\"title\" is not allowed to be empty",
                           ""),
                StringRule("text", 1, 300, FALSE,
                           "Text must be at least 1 character long.",
                           "Text cannot exceed 300 characters.",
                           "\"text\" is not allowed to be empty",
                           "") >>,
    minKeys |-> 1 ]

\* the violations Joi reports for one key of the schema
KeyErrors(rule, data) ==
  IF rule.key \notin DOMAIN data
  THEN IF rule.required THEN << rule.msgRequired >> ELSE << >>
  ELSE LET v == data[rule.key] IN
       IF Len(v) = 0 THEN << rule.msgEmpty >>
       ELSE (IF rule.min > 0 /\ Len(v) < rule.min THEN << rule.msgMin >> ELSE << >>)
            \o (IF rule.max > 0 /\ Len(v) > rule.max THEN << rule.msgMax >> ELSE << >>)

RECURSIVE SchemaErrors(_, _, _)
\* error.details of schema.validate(data, {abortEarly: false}): the keys of the
\* schema in order from the i-th on, then the keys the schema does not know,
\* then the object's own rule
SchemaErrors(schema, data, i) ==
  IF i <= Len(schema.keys)
  THEN KeyErrors(schema.keys[i], data) \o SchemaErrors(schema, data, i + 1)
  ELSE LET known == { schema.keys[j].key : j \in 1..Len(schema.keys) } IN
       (IF "user_id" \in DOMAIN data /\ "user_id" \notin known
        THEN << "\"user_id\" is not allowed" >> ELSE << >>)
       \o (IF Cardinality(DOMAIN data) < schema.minKeys
           THEN << "\"value\" must have at least 1 key" >> ELSE << >>)

RECURSIVE Join(_)
\* errorMessages.join(", ")
Join(msgs) ==
  IF Len(msgs) = 1 THEN msgs[1] ELSE msgs[1] \o ", " \o Join(Tail(msgs))

\* validate with Joi's default abortEarly: only the first violation is reported
validateAbortEarly(schema, data) ==
  LET details == SchemaErrors(schema, data, 1) IN
  IF details # << >>
  THEN [ ok |-> FALSE, error |-> AppError(details[1], 400) ]
  ELSE [ ok |-> TRUE, value |-> data ]

\* validate(schema, data): the value, or the AppError it throws
validate(schema, data) ==
  LET details == SchemaErrors(schema, data, 1) IN
  IF details # << >>
  THEN [ ok |-> FALSE, error |-> AppError(Join(details), 400) ]
  ELSE [ ok |-> TRUE, value |-> data ]

-----------------------------------------------------------------------------
(***************************************************************************)
(* Credential hashing (bcryptjs) and tokens (jsonwebtoken).                *)
(***************************************************************************)
\* JavaScript's null: the result of a query that found no row
Null == [ null |-> TRUE ]

\* bcrypt keys its cipher with the first 72 bytes of the password and ignores
\* the rest
BcryptMaxBytes == 72
Truncate(password) ==
  IF Len(password) > BcryptMaxBytes THEN SubSeq(password, 1, BcryptMaxBytes)
  ELSE password

\* bcrypt.hash(password, await bcrypt.genSalt(10)): a one-way digest
Hash(password) ==
  [ alg |-> "bcrypt", rounds |-> SaltRounds, digestOf |-> Truncate(password) ]

\* bcrypt.compare(password, hash): recompute and compare
Compare(password, hash) == Hash(password) = hash

\* the HS256 signature of a payload under a key
Sign(payload, key) == [ alg |-> "HS256", key |-> key, over |-> payload ]

\* createJwtToken signing a payload whose id is not set
createJwtTokenNoSubject(userId, secret, expiresIn, algorithm, t) ==
  IF secret = ""
  THEN [ ok |-> FALSE,
         error |-> LibError("Error", "secretOrPrivateKey must have a value") ]
  ELSE LET payload == [ id |-> 0, iat |-> t, exp |-> t + expiresIn ] IN
       [ ok |-> TRUE,
         token |-> [ payload |-> payload,
                     sig |-> [ Sign(payload, secret) EXCEPT !.alg = algorithm ] ] ]

\* jwt.sign({id: userId}, secret, {expiresIn, algorithm}) at time t; it throws
\* when the secret is missing
createJwtToken(userId, secret, expiresIn, algorithm, t) ==
  IF secret = ""
  THEN [ ok |-> FALSE,
         error |-> LibError("Error", "secretOrPrivateKey must have a value") ]
  ELSE LET payload == [ id |-> userId, iat |-> t, exp |-> t + expiresIn ] IN
       [ ok |-> TRUE,
         token |-> [ payload |-> payload,
                     sig |-> [ Sign(payload, secret) EXCEPT !.alg = algorithm ] ] ]

\* a string that is no JWT
MalformedToken == [ raw |-> "not.a.jwt" ]

\* jwt.verify accepting a token at the very instant of its expiry
verifyAtExpiry(token, secret, t) ==
  IF DOMAIN token # {"payload", "sig"}
  THEN [ ok |-> FALSE, error |-> LibError("JsonWebTokenError", "jwt malformed") ]
  ELSE IF secret = ""
  THEN [ ok |-> FALSE,
         error |-> LibError("JsonWebTokenError", "secret or public key must be provided") ]
  ELSE IF token.sig # Sign(token.payload, secret)
  THEN [ ok |-> FALSE, error |-> LibError("JsonWebTokenError", "invalid signature") ]
  ELSE IF t > token.payload.exp
  THEN [ ok |-> FALSE, error |-> LibError("TokenExpiredError", "jwt expired") ]
  ELSE [ ok |-> TRUE, decoded |-> token.payload ]

\* jwt.verify(token, secret) at time t: the decoded payload, or the error thrown
verify(token, secret, t) ==
  IF DOMAIN token # {"payload", "sig"}
  THEN [ ok |-> FALSE, error |-> LibError("JsonWebTokenError", "jwt malformed") ]
  ELSE IF secret = ""
  THEN [ ok |-> FALSE,
         error |-> LibError("JsonWebTokenError", "secret or public key must be provided") ]
  ELSE IF token.sig # Sign(token.payload, secret)
  THEN [ ok |-> FALSE, error |-> LibError("JsonWebTokenError", "invalid signature") ]
  ELSE IF t >= token.payload.exp
  THEN [ ok |-> FALSE, error |-> LibError("TokenExpiredError", "jwt expired") ]
  ELSE [ ok |-> TRUE, decoded |-> token.payload ]

\* jwtConfig, from the environment; JWT_LIFETIME 0 stands for "not set"
jwtConfig(environment) ==
  [ secret    |-> environment.JWT_SECRET,
    lifetime  |-> IF environment.JWT_LIFETIME # 0 THEN environment.JWT_LIFETIME
                  ELSE JwtLifetime,
    algorithm |-> "HS256" ]

\* req.headers.authorization is modelled split at the blank: <<scheme, token>>
BearerToken(headers) ==
  IF "authorization" \in DOMAIN headers
     /\ headers.authorization[1] = "Bearer"
     /\ Len(headers.authorization) >= 2
  THEN headers.authorization[2]
  ELSE Null

\* authMiddleware reading the payload with jwt.decode: no signature or expiry check
authMiddlewareDecodeOnly(req, config, t) ==
  LET token == BearerToken(req.headers) IN
  IF token = Null
  THEN [ ok |-> FALSE,
         error |-> AppError("You are not logged in! Please log in to get access.", 401) ]
  ELSE IF DOMAIN token # {"payload", "sig"}
  THEN [ ok |-> FALSE, error |-> AppError("Invalid token. Please log in again.", 401) ]
  ELSE [ ok |-> TRUE, user |-> [ id |-> token.payload.id ] ]

\* authMiddleware answering every error of jwt.verify as an invalid token
authMiddlewareOneMessage(req, config, t) ==
  LET token == BearerToken(req.headers) IN
  IF token = Null
  THEN [ ok |-> FALSE,
         error |-> AppError("You are not logged in! Please log in to get access.", 401) ]
  ELSE LET v == verify(token, config.secret, t) IN
       IF v.ok THEN [ ok |-> TRUE, user |-> [ id |-> v.decoded.id ] ]
       ELSE [ ok |-> FALSE, error |-> AppError("Invalid token. Please log in again.", 401) ]

\* authMiddleware(req, res, next) at time t: req.user and next(), or the
\* AppError handed to next(err)
authMiddleware(req, config, t) ==
  LET token == BearerToken(req.headers) IN
  IF token = Null
  THEN [ ok |-> FALSE,
         error |-> AppError("You are not logged in! Please log in to get access.", 401) ]
  ELSE LET v == verify(token, config.secret, t) IN
       IF v.ok THEN [ ok |-> TRUE, user |-> [ id |-> v.decoded.id ] ]
       ELSE IF v.error.name = "JsonWebTokenError"
       THEN [ ok |-> FALSE, error |-> AppError("Invalid token. Please log in again.", 401) ]
       ELSE IF v.error.name = "TokenExpiredError"
       THEN [ ok |-> FALSE,
              error |-> AppError("Your token has expired! Please log in again.", 401) ]
       ELSE [ ok |-> FALSE, error |-> AppError("Failed to authenticate token.", 401) ]

-----------------------------------------------------------------------------
(***************************************************************************)
(* The persistence gateway: userModel.js and noteModel.js.  Each operator  *)
(* is one SQL statement on the tables it is given; a statement the engine  *)
(* rejects is caught by the model function and rethrown as a 500 AppError. *)
(***************************************************************************)
UserOf(users, username) == CHOOSE u \in users : u.username = username

\* createUser on a users table whose username column is not UNIQUE
createUserNoUnique(users, id, username, passwordHash) ==
  IF Len(username) > 50
  THEN [ ok |-> FALSE, error |-> AppError("Could not create user.", 500) ]
  ELSE [ ok |-> TRUE,
         row |-> [ id |-> id, username |-> username ],
         users |-> users \cup { [ id |-> id, username |-> username,
                                  password_hash |-> passwordHash ] } ]

\* createUser giving the new row the lowest id no stored user has, an id a
\* deleted user may have had
createUserReusesId(users, id, username, passwordHash) ==
  IF (\E u \in users : u.username = username) \/ Len(username) > 50
  THEN [ ok |-> FALSE, error |-> AppError("Could not create user.", 500) ]
  ELSE LET free == CHOOSE i \in 1..id : /\ \A u \in users : u.id # i
                                        /\ \A j \in 1..(i - 1) : \E u \in users : u.id = j
       IN
       [ ok |-> TRUE,
         row |-> [ id |-> free, username |-> username ],
         users |-> users \cup { [ id |-> free, username |-> username,
                                  password_hash |-> passwordHash ] } ]

\* INSERT INTO users (username, password_hash) ... RETURNING id, username, created_at;
\* username is UNIQUE and VARCHAR(50); id is the fresh uuid
createUser(users, id, username, passwordHash) ==
  IF (\E u \in users : u.username = username) \/ Len(username) > 50
  THEN [ ok |-> FALSE, error |-> AppError("Could not create user.", 500) ]
  ELSE [ ok |-> TRUE,
         row |-> [ id |-> id, username |-> username ],
         users |-> users \cup { [ id |-> id, username |-> username,
                                  password_hash |-> passwordHash ] } ]

\* findUserByUsername finding no row whatever the table holds
findUserByUsernameMisses(users, username) == Null

\* SELECT id, username, password_hash, created_at FROM users WHERE username = $1
findUserByUsername(users, username) ==
  IF \E u \in users : u.username = username THEN UserOf(users, username) ELSE Null

\* deleteUser on a schema whose fk_user does not cascade to the notes
deleteUserNoCascade(users, notes, userId) ==
  [ deleted |-> \E u \in users : u.id = userId,
    users   |-> { u \in users : u.id # userId },
    notes   |-> notes ]

\* DELETE FROM users WHERE id = $1 RETURNING id; notes.fk_user is ON DELETE
\* CASCADE, so the notes of the user go in the same statement
deleteUser(users, notes, userId) ==
  [ deleted |-> \E u \in users : u.id = userId,
    users   |-> { u \in users : u.id # userId },
    notes   |-> { n \in notes : n.user_id # userId } ]

\* createNote whose rows all get the same id instead of a fresh one
createNoteFixedId(users, notes, id, userId, title, text, ts) ==
  IF (\A u \in users : u.id # userId) \/ Len(title) > 50 \/ Len(text) > 300
  THEN [ ok |-> FALSE, error |-> AppError("Could not create note.", 500) ]
  ELSE LET row == [ id |-> 1, user_id |-> userId, title |-> title, text |-> text,
                    created_at |-> ts, modified_at |-> ts ]
       IN
       [ ok |-> TRUE, row |-> row, notes |-> notes \cup { row } ]

\* createNote on a notes table without the foreign key fk_user
createNoteNoForeignKey(users, notes, id, userId, title, text, ts) ==
  IF Len(title) > 50 \/ Len(text) > 300
  THEN [ ok |-> FALSE, error |-> AppError("Could not create note.", 500) ]
  ELSE LET row == [ id |-> id, user_id |-> userId, title |-> title, text |-> text,
                    created_at |-> ts, modified_at |-> ts ]
       IN
       [ ok |-> TRUE, row |-> row, notes |-> notes \cup { row } ]

\* INSERT INTO notes (user_id, title, text) ... RETURNING ...; user_id must
\* reference a user, title is VARCHAR(50), text VARCHAR(300)
\* created_at and modified_at default to CURRENT_TIMESTAMP, here ts
createNote(users, notes, id, userId, title, text, ts) ==
  IF (\A u \in users : u.id # userId) \/ Len(title) > 50 \/ Len(text) > 300
  THEN [ ok |-> FALSE, error |-> AppError("Could not create note.", 500) ]
  ELSE LET row == [ id |-> id, user_id |-> userId, title |-> title, text |-> text,
                    created_at |-> ts, modified_at |-> ts ]
       IN
       [ ok |-> TRUE, row |-> row, notes |-> notes \cup { row } ]

\* the sequences that hold each row of the set once, in an order that is
\* ORDER BY modified_at DESC; rows of equal modified_at come in any order
OrderByModifiedDesc(rows) ==
  { r \in [ 1..Cardinality(rows) -> rows ] :
      /\ \A i, j \in DOMAIN r : i # j => r[i] # r[j]
      /\ \A i, j \in DOMAIN r : i < j => r[i].modified_at >= r[j].modified_at }

\* getNotesByUserId without its ORDER BY: the rows in any order
getNotesUnordered(notes, userId) ==
  LET rows == { n \in notes : n.user_id = userId } IN
  { r \in [ 1..Cardinality(rows) -> rows ] :
      \A i, j \in DOMAIN r : i # j => r[i] # r[j] }

\* getNotesByUserId without its WHERE clause
getNotesUnscoped(notes, userId) == OrderByModifiedDesc(notes)

\* SELECT ... FROM notes WHERE user_id = $1 ORDER BY modified_at DESC: the
\* results the statement can give
getNotesByUserId(notes, userId) ==
  OrderByModifiedDesc({ n \in notes : n.user_id = userId })

\* getNoteByIdAndUserId selecting by id alone
getNoteByIdOnly(notes, noteId, userId) ==
  IF \E n \in notes : n.id = noteId
  THEN CHOOSE n \in notes : n.id = noteId
  ELSE Null

\* SELECT ... FROM notes WHERE id = $1 AND user_id = $2
getNoteByIdAndUserId(notes, noteId, userId) ==
  IF \E n \in notes : n.id = noteId /\ n.user_id = userId
  THEN CHOOSE n \in notes : n.id = noteId /\ n.user_id = userId
  ELSE Null

\* trigger update_note_modified_at, BEFORE UPDATE ON notes FOR EACH ROW:
\* NEW.modified_at = NOW(), and NOW() is the time txStart at which the
\* statement's transaction started
update_modified_at_column(new, txStart) == [ new EXCEPT !.modified_at = txStart ]

\* an update that rebuilds the row and loses its owner
ApplyUpdatesLosesOwner(n, updates) ==
  [ n EXCEPT !.title = IF "title" \in DOMAIN updates THEN updates.title ELSE @,
             !.text  = IF "text" \in DOMAIN updates THEN updates.text ELSE @,
             !.user_id = NoUser ]

\* an update that writes both columns, the one not supplied as empty
ApplyUpdatesWritesBoth(n, updates) ==
  [ n EXCEPT !.title = IF "title" \in DOMAIN updates THEN updates.title ELSE << >>,
             !.text  = IF "text" \in DOMAIN updates THEN updates.text ELSE << >> ]

\* the row after SET title = $3, text = $4 for the fields present in updates
ApplyUpdates(n, updates) ==
  [ n EXCEPT !.title = IF "title" \in DOMAIN updates THEN updates.title ELSE @,
             !.text  = IF "text" \in DOMAIN updates THEN updates.text ELSE @ ]

\* updateNote with optimistic versioning: it writes no row that was written
\* after its own transaction began
updateNoteVersioned(notes, id, userId, updates, txStart) ==
  IF {"title", "text"} \cap DOMAIN updates = {}
  THEN [ row |-> Null, notes |-> notes ]
  ELSE LET hit == { n \in notes : n.id = id /\ n.user_id = userId
                                  /\ n.modified_at <= txStart } IN
       IF hit = {} THEN [ row |-> Null, notes |-> notes ]
       ELSE LET old == CHOOSE n \in hit : TRUE
                new == update_modified_at_column(ApplyUpdates(old, updates), txStart)
            IN
            [ row |-> new, notes |-> (notes \ { old }) \cup { new } ]

\* UPDATE notes SET ... WHERE id = $1 AND user_id = $2 RETURNING ...; no
\* statement is sent when neither field is present.  txStart is the start of
\* the statement's transaction; the trigger runs on the row before it is
\* written, and RETURNING gives the row as written
updateNote(notes, id, userId, updates, txStart) ==
  IF {"title", "text"} \cap DOMAIN updates = {}
  THEN [ row |-> Null, notes |-> notes ]
  ELSE LET hit == { n \in notes : n.id = id /\ n.user_id = userId } IN
       IF hit = {} THEN [ row |-> Null, notes |-> notes ]
       ELSE LET old == CHOOSE n \in hit : TRUE
                new == update_modified_at_column(ApplyUpdates(old, updates), txStart)
            IN
            [ row |-> new, notes |-> (notes \ { old }) \cup { new } ]

\* deleteNote reporting the row deleted and keeping it
deleteNoteKeepsRow(notes, id, userId) ==
  [ deleted |-> \E n \in notes : n.id = id /\ n.user_id = userId,
    notes   |-> notes ]

\* DELETE FROM notes WHERE id = $1 AND user_id = $2 RETURNING id
deleteNote(notes, id, userId) ==
  [ deleted |-> \E n \in notes : n.id = id /\ n.user_id = userId,
    notes   |-> { n \in notes : ~(n.id = id /\ n.user_id = userId) } ]

\* lower(c) for the letters the model's titles use
Lower(c) ==
  CASE c = "G" -> "g" [] c = "S" -> "s" [] c = "H" -> "h" [] c = "O" -> "o"
    [] OTHER -> c

RECURSIVE Like(_, _)
\* str ILIKE pattern: % is any run of characters, _ any one character, a
\* backslash takes the next character literally, letters compare without case
Like(pattern, str) ==
  IF pattern = << >> THEN str = << >>
  ELSE IF Head(pattern) = "%"
  THEN Like(Tail(pattern), str) \/ (str # << >> /\ Like(pattern, Tail(str)))
  ELSE IF str = << >> THEN FALSE
  ELSE IF Head(pattern) = "_" THEN Like(Tail(pattern), Tail(str))
  ELSE IF Head(pattern) = "\\"
  THEN /\ Len(pattern) >= 2
       /\ Lower(pattern[2]) = Lower(Head(str))
       /\ Like(Tail(Tail(pattern)), Tail(str))
  ELSE Lower(Head(pattern)) = Lower(Head(str)) /\ Like(Tail(pattern), Tail(str))

\* SELECT ... FROM notes WHERE user_id = $1 AND title ILIKE $2, $2 = `%${searchTerm}%`
\* ORDER BY modified_at DESC: the results the statement can give
searchNotesByTitle(notes, userId, searchTerm) ==
  OrderByModifiedDesc(
    { n \in notes : n.user_id = userId /\ Like(<<"%">> \o searchTerm \o <<"%">>, n.title) })

-----------------------------------------------------------------------------
(***************************************************************************)
(* The state.                                                              *)
(***************************************************************************)
VARIABLES
  users,       \* table users: rows [id, username, password_hash]
  notes,       \* table notes: rows [id, user_id, title, text]
  nextUserId,  \* the next id uuid_generate_v4() gives a user: never one in use
  nextNoteId,  \* the next id uuid_generate_v4() gives a note
  now,         \* the clock
  dbNow,       \* the database clock: the next reading of CURRENT_TIMESTAMP
  env,         \* process.env: JWT_SECRET, JWT_LIFETIME
  issued,      \* the tokens clients hold: the latest one issued for each user
  inflight,    \* per slot, the request suspended at a storage call, or Idle
  last         \* the step just taken: request, caller, storage calls, response

vars ==
  << users, notes, nextUserId, nextNoteId, now, dbNow, env, issued, inflight, last >>

Idle == [ op |-> "idle" ]
\* no response sent yet: the request is suspended
NoResponse == [ statusCode |-> 0, body |-> EmptyObject ]

\* the value of req.headers, req.body or req.query of a request without any
NoRequest == [ headers |-> EmptyObject, body |-> EmptyObject, query |-> EmptyObject ]

\* what a step leaves in `last`; pre is the database the step started from
Step(op, req, user, calls, res) ==
  [ op |-> op, req |-> req, user |-> user, calls |-> calls, res |-> res,
    pre |-> [ users |-> users, notes |-> notes ], at |-> now, authAt |-> now ]

\* the step that resumes a suspended request: authAt is when the request
\* passed authMiddleware
Resume(slot, calls, res) ==
  [ Step(slot.op, slot.req, slot.user, calls, res) EXCEPT !.authAt = slot.at ]

\* a request suspended at a storage call; at is when it passed authMiddleware
\* txStart is the start of the transaction of the statement it waits for,
\* for a statement that reads the database clock
SuspendedAt(op, req, user, txStart) ==
  [ op |-> op, req |-> req, user |-> user, at |-> now, txStart |-> txStart ]
Suspended(op, req, user) == SuspendedAt(op, req, user, 0)

\* `last` between two steps: the response, if any, has gone out
Quiet ==
  [ op |-> "none", req |-> NoRequest, user |-> NoUser, calls |-> << >>,
    res |-> NoResponse, pre |-> [ users |-> {}, notes |-> {} ], at |-> 0,
    authAt |-> 0 ]

Request(headers, body, query) == [ headers |-> headers, body |-> body, query |-> query ]

FreeSlots == { s \in Slots : inflight[s] = Idle }
\* the free slot a new request is suspended in
FreeSlot == CHOOSE s \in FreeSlots : \A t \in FreeSlots : s <= t

config == jwtConfig(env)

\* the client keeps the latest token of each user
Hold(token) == { t \in issued : t.payload.id # token.payload.id } \cup { token }

(***************************************************************************)
(* The requests clients send.                                              *)
(***************************************************************************)
Bearer(token) == [ authorization |-> << "Bearer", token >> ]
\* a token for the same subject signed with a key that is not the server's
Forged(token) == [ token EXCEPT !.sig = Sign(token.payload, "attacker-key") ]

\* headers that carry no token the server issued
BadHeaders ==
  { EmptyObject,
    [ authorization |-> << "Basic", MalformedToken >> ],
    [ authorization |-> << "Bearer" >> ],
    Bearer(MalformedToken) }
  \cup { Bearer(Forged(t)) : t \in issued }
\* headers that carry a token the server issued, expired or not
IssuedHeaders == { Bearer(t) : t \in issued }

\* two passwords of 73 characters that differ in the last one
LongPassword ==
  "correct-horse-battery-staple-correct-horse-battery-staple-correct-horse-" \o "1"
LongPasswordOther ==
  "correct-horse-battery-staple-correct-horse-battery-staple-correct-horse-" \o "2"

\* usernames of 50 and of 51 characters
Username50 == "a-username-of-exactly-fifty-characters-0123456789x"
Username51 == Username50 \o "y"

SignupBodies ==
  { [ username |-> "alice", password |-> "secret1" ],
    [ username |-> "alice", password |-> LongPassword ],
    [ username |-> "bob", password |-> "secret1" ],
    [ username |-> "al", password |-> "abc" ],
    [ username |-> "al", password |-> "secret1" ],
    [ username |-> "bob", password |-> "abcde" ],
    [ username |-> Username50, password |-> "abcdef" ],
    [ username |-> Username51, password |-> "abcdef" ],
    [ username |-> "alice" ],
    EmptyObject }

LoginBodies ==
  { [ username |-> "alice", password |-> "secret1" ],
    [ username |-> "alice", password |-> LongPassword ],
    [ username |-> "alice", password |-> LongPasswordOther ],
    [ username |-> "alice", password |-> "wrong-password" ],
    [ username |-> "bob", password |-> "secret1" ],
    [ username |-> "bob", password |-> "wrong-password" ],
    [ username |-> "alice", password |-> "" ],
    EmptyObject }

Init ==
  /\ users = {}
  /\ notes = {}
  /\ nextUserId = 1
  /\ nextNoteId = 1
  /\ now = 0
  /\ dbNow = 0
  /\ env = [ JWT_SECRET |-> "deployment-secret", JWT_LIFETIME |-> 0 ]
  /\ issued = {}
  /\ inflight = [ s \in Slots |-> Idle ]
  /\ last = Quiet

-----------------------------------------------------------------------------
(***************************************************************************)
(* User operations: userController.js, userService.js.                     *)
(***************************************************************************)
\* userService.signup, its checks before the first storage call
signupChecks(username, password) ==
  IF Len(username) = 0 \/ Len(password) = 0
  THEN [ ok |-> FALSE, error |-> AppError("Username and password are required.", 400) ]
  ELSE IF Len(username) > 50 \/ Len(password) < 6
  THEN [ ok |-> FALSE, error |-> AppError("Invalid username or password format.", 400) ]
  ELSE [ ok |-> TRUE ]

\* userService.login, its check before the storage call
loginChecks(username, password) ==
  IF Len(username) = 0 \/ Len(password) = 0
  THEN [ ok |-> FALSE, error |-> AppError("Username and password are required.", 400) ]
  ELSE [ ok |-> TRUE ]

\* the signups suspended between the availability check and the insert
PendingSignups == { s \in Slots : inflight[s].op = "signup" }

\* POST /api/user/signup, up to the answer of findUserByUsername: validation,
\* the service's checks, the availability check; then the request is
\* suspended in bcrypt and createUser
Signup(body) ==
  LET req == Request(EmptyObject, body, EmptyObject)
      v   == validate(signupSchema, body)
  IN
  /\ last = Quiet
  /\ FreeSlots # {}
  /\ nextUserId + Cardinality(PendingSignups) <= MaxUsers
  /\ IF ~v.ok
     THEN /\ last' = Step("signup", req, NoUser, << >>, errorHandler(v.error))
          /\ UNCHANGED inflight
     ELSE LET g == signupChecks(v.value.username, v.value.password) IN
          IF ~g.ok
          THEN /\ last' = Step("signup", req, NoUser, << >>, errorHandler(g.error))
               /\ UNCHANGED inflight
          ELSE IF findUserByUsername(users, v.value.username) # Null
          THEN /\ last' = Step("signup", req, NoUser, << "findUserByUsername" >>,
                               errorHandler(AppError("Username already exists.", 409)))
               /\ UNCHANGED inflight
          ELSE /\ last' = Step("signup", req, NoUser, << "findUserByUsername" >>,
                               NoResponse)
               /\ inflight' = [ inflight EXCEPT ![FreeSlot] =
                                  Suspended("signup", req, NoUser) ]
  /\ UNCHANGED << users, notes, nextUserId, nextNoteId, now, dbNow, env, issued >>

\* the rest of signup: createUser with the hashed password, then the token
\* and the 201 response; an error goes through next(error) to errorHandler
SignupInsert(s) ==
  /\ last = Quiet
  /\ inflight[s].op = "signup"
  /\ LET req == inflight[s].req
         r   == createUser(users, nextUserId, req.body.username, Hash(req.body.password))
     IN
     IF ~r.ok
     THEN /\ last' = Resume(inflight[s], << "createUser" >>, errorHandler(r.error))
          /\ UNCHANGED << users, nextUserId, issued >>
     ELSE LET tk == createJwtToken(r.row.id, config.secret, config.lifetime,
                                   config.algorithm, now)
          IN
          /\ users' = r.users
          /\ nextUserId' = nextUserId + 1
          /\ IF ~tk.ok
             THEN /\ last' = Resume(inflight[s], << "createUser" >>,
                                    errorHandler(tk.error))
                  /\ UNCHANGED issued
             ELSE /\ last' = Resume(inflight[s], << "createUser" >>,
                                  Success(201, "User registered successfully!",
                                          [ id |-> r.row.id, username |-> r.row.username,
                                            token |-> tk.token ]))
                  /\ issued' = Hold(tk.token)
  /\ inflight' = [ inflight EXCEPT ![s] = Idle ]
  /\ UNCHANGED << notes, nextNoteId, now, dbNow, env >>

\* login telling an unknown username apart from a wrong password
loginTellsUnknownUser(users_, username, password, cfg, t) ==
  LET g == loginChecks(username, password)
      user == findUserByUsername(users_, username)
  IN
  IF ~g.ok THEN [ ok |-> FALSE, error |-> g.error, calls |-> << >> ]
  ELSE IF user = Null
  THEN [ ok |-> FALSE, error |-> AppError("User not found.", 404),
         calls |-> << "findUserByUsername" >> ]
  ELSE IF ~Compare(password, user.password_hash)
  THEN [ ok |-> FALSE, error |-> AppError("Invalid credentials.", 401),
         calls |-> << "findUserByUsername" >> ]
  ELSE LET tk == createJwtToken(user.id, cfg.secret, cfg.lifetime, cfg.algorithm, t) IN
       IF ~tk.ok
       THEN [ ok |-> FALSE, error |-> tk.error, calls |-> << "findUserByUsername" >> ]
       ELSE [ ok |-> TRUE,
              data |-> [ id |-> user.id, username |-> user.username, token |-> tk.token ],
              calls |-> << "findUserByUsername" >> ]

\* login returning the users row it fetched, password_hash included, with the token
loginReturnsRow(users_, username, password, cfg, t) ==
  LET g == loginChecks(username, password)
      user == findUserByUsername(users_, username)
  IN
  IF ~g.ok THEN [ ok |-> FALSE, error |-> g.error, calls |-> << >> ]
  ELSE IF user = Null
  THEN [ ok |-> FALSE, error |-> AppError("Invalid credentials.", 401),
         calls |-> << "findUserByUsername" >> ]
  ELSE IF ~Compare(password, user.password_hash)
  THEN [ ok |-> FALSE, error |-> AppError("Invalid credentials.", 401),
         calls |-> << "findUserByUsername" >> ]
  ELSE LET tk == createJwtToken(user.id, cfg.secret, cfg.lifetime, cfg.algorithm, t) IN
       IF ~tk.ok
       THEN [ ok |-> FALSE, error |-> tk.error, calls |-> << "findUserByUsername" >> ]
       ELSE [ ok |-> TRUE,
              data |-> [ id |-> user.id, username |-> user.username,
                         password_hash |-> user.password_hash, token |-> tk.token ],
              calls |-> << "findUserByUsername" >> ]

\* userService.login(username, password) at time t: the data it returns or
\* the error it throws, and the storage calls it made
login(users_, username, password, cfg, t) ==
  LET g == loginChecks(username, password)
      user == findUserByUsername(users_, username)
  IN
  IF ~g.ok THEN [ ok |-> FALSE, error |-> g.error, calls |-> << >> ]
  ELSE IF user = Null
  THEN [ ok |-> FALSE, error |-> AppError("Invalid credentials.", 401),
         calls |-> << "findUserByUsername" >> ]
  ELSE IF ~Compare(password, user.password_hash)
  THEN [ ok |-> FALSE, error |-> AppError("Invalid credentials.", 401),
         calls |-> << "findUserByUsername" >> ]
  ELSE LET tk == createJwtToken(user.id, cfg.secret, cfg.lifetime, cfg.algorithm, t) IN
       IF ~tk.ok
       THEN [ ok |-> FALSE, error |-> tk.error, calls |-> << "findUserByUsername" >> ]
       ELSE [ ok |-> TRUE,
              data |-> [ id |-> user.id, username |-> user.username, token |-> tk.token ],
              calls |-> << "findUserByUsername" >> ]

\* login storing the password hashed anew, with more rounds, when it succeeds
LoginRehashes(body) ==
  LET req == Request(EmptyObject, body, EmptyObject)
      v   == validate(loginSchema, body)
  IN
  /\ last = Quiet
  /\ IF ~v.ok
     THEN /\ last' = Step("login", req, NoUser, << >>, errorHandler(v.error))
          /\ UNCHANGED << issued, users >>
     ELSE LET r == login(users, v.value.username, v.value.password, config, now) IN
          IF ~r.ok
          THEN /\ last' = Step("login", req, NoUser, r.calls, errorHandler(r.error))
               /\ UNCHANGED << issued, users >>
          ELSE /\ last' = Step("login", req, NoUser, r.calls,
                               Success(200, "User logged in successfully!", r.data))
               /\ issued' = Hold(r.data.token)
               /\ users' = { IF u.id = r.data.id
                             THEN [ u EXCEPT !.password_hash.rounds = SaltRounds + 2 ]
                             ELSE u : u \in users }
  /\ UNCHANGED << notes, nextUserId, nextNoteId, now, dbNow, env, inflight >>

\* POST /api/user/login: validation, then userService.login
Login(body) ==
  LET req == Request(EmptyObject, body, EmptyObject)
      v   == validate(loginSchema, body)
  IN
  /\ last = Quiet
  /\ IF ~v.ok
     THEN /\ last' = Step("login", req, NoUser, << >>, errorHandler(v.error))
          /\ UNCHANGED issued
     ELSE LET r == login(users, v.value.username, v.value.password, config, now) IN
          IF ~r.ok
          THEN /\ last' = Step("login", req, NoUser, r.calls, errorHandler(r.error))
               /\ UNCHANGED issued
          ELSE /\ last' = Step("login", req, NoUser, r.calls,
                               Success(200, "User logged in successfully!", r.data))
               /\ issued' = Hold(r.data.token)
  /\ UNCHANGED << users, notes, nextUserId, nextNoteId, now, dbNow, env, inflight >>

\* the caller identity taken from a user_id parameter of the query string
\* when the request has one
CallerIdFromQuery(req, auth) ==
  IF "user_id" \in DOMAIN req.query THEN req.query.user_id ELSE auth.user.id

\* the caller identity a controller works with: req.user.id
CallerId(req, auth) == auth.user.id

\* deleteUserAccount not looking at what deleteUser returned
deleteUserAccountIgnoresResult(users_, notes_, userId) ==
  LET r == deleteUser(users_, notes_, userId) IN
  [ ok |-> TRUE, users |-> r.users, notes |-> r.notes ]

\* userService.deleteUserAccount(userId): true, or the 404 it throws
deleteUserAccount(users_, notes_, userId) ==
  LET r == deleteUser(users_, notes_, userId) IN
  IF ~r.deleted
  THEN [ ok |-> FALSE, users |-> r.users, notes |-> r.notes,
         error |-> AppError("User not found or could not be deleted.", 404) ]
  ELSE [ ok |-> TRUE, users |-> r.users, notes |-> r.notes ]

\* DELETE /api/user/delete: authMiddleware, then deleteCurrentUser and
\* userService.deleteUserAccount
DeleteCurrentUser(headers) ==
  LET req  == Request(headers, EmptyObject, EmptyObject)
      auth == authMiddleware(req, config, now)
  IN
  /\ last = Quiet
  /\ IF ~auth.ok
     THEN /\ last' = Step("deleteCurrentUser", req, NoUser, << >>, errorHandler(auth.error))
          /\ UNCHANGED << users, notes >>
     ELSE LET userId == CallerId(req, auth) IN
          IF userId = NoUser
          THEN /\ last' = Step("deleteCurrentUser", req, userId, << >>,
                               errorHandler(AppError("User ID not found in token.", 400)))
               /\ UNCHANGED << users, notes >>
          ELSE LET r == deleteUserAccount(users, notes, userId) IN
               /\ users' = r.users
               /\ notes' = r.notes
               /\ last' = Step("deleteCurrentUser", req, userId, << "deleteUser" >>,
                               IF r.ok THEN NoContent ELSE errorHandler(r.error))
  /\ UNCHANGED << nextUserId, nextNoteId, now, dbNow, env, issued, inflight >>

\* an hour passes
Tick ==
  /\ last = Quiet
  /\ now < MaxTime
  /\ now' = now + 1
  /\ UNCHANGED << users, notes, nextUserId, nextNoteId, dbNow, env, issued, inflight,
                  last >>

\* the step just taken is over: its response, if it sent one, is with the
\* client.  `last` records one step at a time, so the next step starts here.
Settle ==
  /\ last # Quiet
  /\ last' = Quiet
  /\ UNCHANGED << users, notes, nextUserId, nextNoteId, now, dbNow, env, issued, inflight >>

NextUser ==
  \/ \E body \in SignupBodies : Signup(body)
  \/ \E s \in Slots : SignupInsert(s)
  \/ \E body \in LoginBodies : Login(body)
  \/ \E headers \in BadHeaders \cup IssuedHeaders : DeleteCurrentUser(headers)
  \/ Tick
  \/ Settle

SpecUser == Init /\ [][NextUser]_vars

\* a deployment whose environment has no JWT_SECRET: jwtConfig.secret is
\* undefined, no module checks it, and app.listen serves requests
InitNoSecret ==
  /\ users = {}
  /\ notes = {}
  /\ nextUserId = 1
  /\ nextNoteId = 1
  /\ now = 0
  /\ dbNow = 0
  /\ env = [ JWT_SECRET |-> "", JWT_LIFETIME |-> 0 ]
  /\ issued = {}
  /\ inflight = [ s \in Slots |-> Idle ]
  /\ last = Quiet

SpecNoSecret == InitNoSecret /\ [][NextUser]_vars

-----------------------------------------------------------------------------
(***************************************************************************)
(* Note operations: the notes router, noteController.js, noteService.js.   *)
(***************************************************************************)
Title1 == << "G", "o" >>
Title2 == << "S", "h", "o", "p" >>
Text1 == << "m", "i", "l", "k" >>
Text2 == << "e", "g", "g", "s" >>

CreateNoteBodies ==
  { [ title |-> Title1, text |-> Text1 ],
    [ title |-> Title1, text |-> Text1, user_id |-> "someone-else" ],
    [ title |-> << >>, text |-> Text1 ],
    EmptyObject }

UpdateNoteBodies ==
  { [ title |-> Title2 ],
    [ text |-> Text2 ],
    [ title |-> Title2, text |-> Text2 ],
    EmptyObject }

\* ?id=<note id>
UpdateQueries == { [ id |-> i ] : i \in NoteIds }

\* ?id=<note id>, with or without a user_id parameter naming the note's owner
DeleteQueries ==
  { [ id |-> i ] : i \in NoteIds }
  \cup { [ id |-> n.id, user_id |-> n.user_id ] : n \in notes }
  \cup { EmptyObject }

\* no parameter, or a user_id parameter naming a user
ListQueries == { EmptyObject } \cup { [ user_id |-> u.id ] : u \in users }

SearchQueries ==
  { [ q |-> << "s", "h" >> ], [ q |-> << "z" >> ], [ q |-> << "_" >> ],
    [ q |-> << " " >> ], [ q |-> << >> ], EmptyObject }

\* searchTerm.trim() === ""
Blank(term) == \A i \in 1..Len(term) : term[i] = " "

\* POST /api/notes: authMiddleware, createNote, createNoteService
CreateNote(headers, body) ==
  LET req  == Request(headers, body, EmptyObject)
      auth == authMiddleware(req, config, now)
  IN
  /\ last = Quiet
  /\ nextNoteId <= MaxNotes
  /\ dbNow < MaxStamps
  /\ IF ~auth.ok
     THEN /\ last' = Step("createNote", req, NoUser, << >>, errorHandler(auth.error))
          /\ UNCHANGED << notes, nextNoteId, dbNow >>
     ELSE LET userId == CallerId(req, auth)
              v == validate(createNoteSchema, body)
          IN
          IF ~v.ok
          THEN /\ last' = Step("createNote", req, userId, << >>, errorHandler(v.error))
               /\ UNCHANGED << notes, nextNoteId, dbNow >>
          ELSE LET r == createNote(users, notes, nextNoteId, userId,
                                   v.value.title, v.value.text, dbNow)
               IN
               IF ~r.ok
               THEN /\ last' = Step("createNote", req, userId, << "createNote" >>,
                                    errorHandler(r.error))
                    /\ UNCHANGED << notes, nextNoteId, dbNow >>
               ELSE /\ notes' = r.notes
                    /\ nextNoteId' = nextNoteId + 1
                    /\ dbNow' = dbNow + 1
                    /\ last' = Step("createNote", req, userId, << "createNote" >>,
                                    Success(201, "Note created successfully!", r.row))
  /\ UNCHANGED << users, nextUserId, now, env, issued, inflight >>

\* GET /api/notes: authMiddleware, getNotes, getNotesService
GetNotes(headers, query) ==
  LET req  == Request(headers, EmptyObject, query)
      auth == authMiddleware(req, config, now)
  IN
  /\ last = Quiet
  /\ IF ~auth.ok
     THEN last' = Step("getNotes", req, NoUser, << >>, errorHandler(auth.error))
     ELSE LET userId == CallerId(req, auth) IN
          \E rows \in getNotesByUserId(notes, userId) :
             last' = Step("getNotes", req, userId, << "getNotesByUserId" >>,
                          Success(200, "Notes retrieved successfully!", rows))
  /\ UNCHANGED << users, notes, nextUserId, nextNoteId, now, dbNow, env, issued, inflight >>

\* updateNote validating the body before it looks for the note id
UpdateNoteValidatesFirst(headers, query, body) ==
  LET req  == Request(headers, body, query)
      auth == authMiddleware(req, config, now)
  IN
  /\ last = Quiet
  /\ FreeSlots # {}
  /\ IF ~auth.ok
     THEN /\ last' = Step("updateNote", req, NoUser, << >>, errorHandler(auth.error))
          /\ UNCHANGED << inflight, dbNow >>
     ELSE LET userId == CallerId(req, auth)
              v == validate(updateNoteSchema, body)
          IN
          IF ~v.ok
          THEN /\ last' = Step("updateNote", req, userId, << >>, errorHandler(v.error))
               /\ UNCHANGED << inflight, dbNow >>
          ELSE IF DOMAIN v.value = {}
          THEN /\ last' = Step("updateNote", req, userId, << >>,
                    errorHandler(AppError(
                      "No valid fields provided for update (title or text).", 400)))
               /\ UNCHANGED << inflight, dbNow >>
          ELSE IF "id" \notin DOMAIN query
          THEN /\ last' = Step("updateNote", req, userId, << >>,
                    errorHandler(AppError(
                      "Note ID is required as a query parameter (e.g., ?id=...)", 400)))
               /\ UNCHANGED << inflight, dbNow >>
          ELSE IF getNoteByIdAndUserId(notes, query.id, userId) = Null
          THEN /\ last' = Step("updateNote", req, userId, << "getNoteByIdAndUserId" >>,
                    errorHandler(AppError(
                      "Note not found or you do not have permission to update it.", 404)))
               /\ UNCHANGED << inflight, dbNow >>
          ELSE /\ dbNow < MaxStamps
               /\ last' = Step("updateNote", req, userId, << "getNoteByIdAndUserId" >>,
                               NoResponse)
               /\ inflight' = [ inflight EXCEPT ![FreeSlot] =
                                  SuspendedAt("updateNote", req, userId, dbNow) ]
               /\ dbNow' = dbNow + 1
  /\ UNCHANGED << users, notes, nextUserId, nextNoteId, now, env, issued >>

\* PUT /api/notes?id=..., up to the answer of getNoteByIdAndUserId:
\* authMiddleware, the controller's checks, the ownership lookup of
\* updateNoteService; then updateNote sends its UPDATE, whose transaction
\* starts and fixes NOW(), and the request is suspended until the row is
\* written
UpdateNote(headers, query, body) ==
  LET req  == Request(headers, body, query)
      auth == authMiddleware(req, config, now)
  IN
  /\ last = Quiet
  /\ FreeSlots # {}
  /\ IF ~auth.ok
     THEN /\ last' = Step("updateNote", req, NoUser, << >>, errorHandler(auth.error))
          /\ UNCHANGED << inflight, dbNow >>
     ELSE LET userId == CallerId(req, auth)
              v == validate(updateNoteSchema, body)
          IN
          IF "id" \notin DOMAIN query
          THEN /\ last' = Step("updateNote", req, userId, << >>,
                    errorHandler(AppError(
                      "Note ID is required as a query parameter (e.g., ?id=...)", 400)))
               /\ UNCHANGED << inflight, dbNow >>
          ELSE IF ~v.ok
          THEN /\ last' = Step("updateNote", req, userId, << >>, errorHandler(v.error))
               /\ UNCHANGED << inflight, dbNow >>
          ELSE IF DOMAIN v.value = {}
          THEN /\ last' = Step("updateNote", req, userId, << >>,
                    errorHandler(AppError(
                      "No valid fields provided for update (title or text).", 400)))
               /\ UNCHANGED << inflight, dbNow >>
          ELSE IF getNoteByIdAndUserId(notes, query.id, userId) = Null
          THEN /\ last' = Step("updateNote", req, userId, << "getNoteByIdAndUserId" >>,
                    errorHandler(AppError(
                      "Note not found or you do not have permission to update it.", 404)))
               /\ UNCHANGED << inflight, dbNow >>
          ELSE /\ dbNow < MaxStamps
               /\ last' = Step("updateNote", req, userId, << "getNoteByIdAndUserId" >>,
                               NoResponse)
               /\ inflight' = [ inflight EXCEPT ![FreeSlot] =
                                  SuspendedAt("updateNote", req, userId, dbNow) ]
               /\ dbNow' = dbNow + 1
  /\ UNCHANGED << users, notes, nextUserId, nextNoteId, now, env, issued >>

\* the rest of updateNoteService: the UPDATE writes the row, with the
\* transaction start as NOW(), and the 200 response
UpdateNoteWrite(s) ==
  /\ last = Quiet
  /\ inflight[s].op = "updateNote"
  /\ LET req == inflight[s].req
         userId == inflight[s].user
         r == updateNote(notes, req.query.id, userId, req.body, inflight[s].txStart)
     IN
     /\ notes' = r.notes
     /\ last' = Resume(inflight[s], << "updateNote" >>,
                     IF r.row = Null
                     THEN errorHandler(AppError(
                            "Failed to update note. Please try again.", 500))
                     ELSE Success(200, "Note updated successfully!", r.row))
  /\ inflight' = [ inflight EXCEPT ![s] = Idle ]
  /\ UNCHANGED << users, nextUserId, nextNoteId, now, dbNow, env, issued >>

\* DELETE /api/notes?id=..., up to the answer of getNoteByIdAndUserId
DeleteNote(headers, query) ==
  LET req  == Request(headers, EmptyObject, query)
      auth == authMiddleware(req, config, now)
  IN
  /\ last = Quiet
  /\ FreeSlots # {}
  /\ IF ~auth.ok
     THEN /\ last' = Step("deleteNote", req, NoUser, << >>, errorHandler(auth.error))
          /\ UNCHANGED inflight
     ELSE LET userId == CallerId(req, auth) IN
          IF "id" \notin DOMAIN query
          THEN /\ last' = Step("deleteNote", req, userId, << >>,
                    errorHandler(AppError(
                      "Note ID is required as a query parameter (e.g., ?id=...)", 400)))
               /\ UNCHANGED inflight
          ELSE IF getNoteByIdAndUserId(notes, query.id, userId) = Null
          THEN /\ last' = Step("deleteNote", req, userId, << "getNoteByIdAndUserId" >>,
                    errorHandler(AppError(
                      "Note not found or you do not have permission to delete it.", 404)))
               /\ UNCHANGED inflight
          ELSE /\ last' = Step("deleteNote", req, userId, << "getNoteByIdAndUserId" >>,
                               NoResponse)
               /\ inflight' = [ inflight EXCEPT ![FreeSlot] =
                                  Suspended("deleteNote", req, userId) ]
  /\ UNCHANGED << users, notes, nextUserId, nextNoteId, now, dbNow, env, issued >>

\* the rest of deleteNoteService: the DELETE and the 204 response
DeleteNoteWrite(s) ==
  /\ last = Quiet
  /\ inflight[s].op = "deleteNote"
  /\ LET req == inflight[s].req
         userId == inflight[s].user
         r == deleteNote(notes, req.query.id, userId)
     IN
     /\ notes' = r.notes
     /\ last' = Resume(inflight[s], << "deleteNote" >>,
                     IF r.deleted THEN NoContent
                     ELSE errorHandler(AppError(
                            "Failed to delete note. Please try again.", 500)))
  /\ inflight' = [ inflight EXCEPT ![s] = Idle ]
  /\ UNCHANGED << users, nextUserId, nextNoteId, now, dbNow, env, issued >>

\* GET /api/notes/search?q=...: authMiddleware, searchNotes, searchNotesService
SearchNotes(headers, query) ==
  LET req  == Request(headers, EmptyObject, query)
      auth == authMiddleware(req, config, now)
  IN
  /\ last = Quiet
  /\ IF ~auth.ok
     THEN last' = Step("searchNotes", req, NoUser, << >>, errorHandler(auth.error))
     ELSE LET userId == CallerId(req, auth) IN
          IF "q" \notin DOMAIN query \/ Len(query.q) = 0 \/ Blank(query.q)
          THEN last' = Step("searchNotes", req, userId, << >>,
                            errorHandler(AppError("Search query (q) is required.", 400)))
          ELSE \E found \in searchNotesByTitle(notes, userId, query.q) :
                  last' = Step("searchNotes", req, userId, << "searchNotesByTitle" >>,
                               Success(200,
                                       IF Len(found) = 0
                                       THEN "No notes found matching your search criteria."
                                       ELSE "Notes found successfully!",
                                       found))
  /\ UNCHANGED << users, notes, nextUserId, nextNoteId, now, dbNow, env, issued, inflight >>

\* the headers the note routes are tried with beside the issued tokens: none,
\* and a forged token
RejectedHeaders == { EmptyObject } \cup { Bearer(Forged(t)) : t \in issued }

NextNotes ==
  \/ \E headers \in IssuedHeaders, body \in CreateNoteBodies : CreateNote(headers, body)
  \/ \E headers \in RejectedHeaders :
        CreateNote(headers, [ title |-> Title1, text |-> Text1 ])
  \/ \E headers \in IssuedHeaders, query \in ListQueries : GetNotes(headers, query)
  \/ \E headers \in RejectedHeaders : GetNotes(headers, EmptyObject)
  \/ \E headers \in IssuedHeaders, query \in UpdateQueries, body \in UpdateNoteBodies :
        UpdateNote(headers, query, body)
  \/ \E headers \in IssuedHeaders, body \in { [ title |-> Title2 ], EmptyObject } :
        UpdateNote(headers, EmptyObject, body)
  \/ \E headers \in RejectedHeaders :
        UpdateNote(headers, [ id |-> 1 ], [ title |-> Title2 ])
  \/ \E s \in Slots : UpdateNoteWrite(s)
  \/ \E headers \in IssuedHeaders, query \in DeleteQueries : DeleteNote(headers, query)
  \/ \E headers \in RejectedHeaders : DeleteNote(headers, [ id |-> 1 ])
  \/ \E s \in Slots : DeleteNoteWrite(s)
  \/ \E headers \in IssuedHeaders, query \in SearchQueries : SearchNotes(headers, query)
  \/ \E headers \in RejectedHeaders : SearchNotes(headers, [ q |-> << "s", "h" >> ])

Next == NextUser \/ NextNotes

Spec == Init /\ [][Next]_vars

(***************************************************************************)
(* The note service with two registered users.  InitNotes is the state     *)
(* SpecUser reaches when alice and then bob have signed up at time 0       *)
(* (RegisteredReached below); from there the note operations, account      *)
(* deletion and the clock run.                                             *)
(***************************************************************************)
AliceSignup == Request(EmptyObject, [ username |-> "alice", password |-> "secret1" ],
                       EmptyObject)
BobSignup == Request(EmptyObject, [ username |-> "bob", password |-> "secret1" ],
                     EmptyObject)
\* the token signup issues at time 0 for the user with this id
SignupToken(id) ==
  createJwtToken(id, "deployment-secret", JwtLifetime, "HS256", 0).token
AliceRow == [ id |-> 1, username |-> "alice", password_hash |-> Hash("secret1") ]
BobRow == [ id |-> 2, username |-> "bob", password_hash |-> Hash("secret1") ]

InitNotes ==
  /\ users = { AliceRow, BobRow }
  /\ notes = {}
  /\ nextUserId = 3
  /\ nextNoteId = 1
  /\ now = 0
  /\ dbNow = 0
  /\ env = [ JWT_SECRET |-> "deployment-secret", JWT_LIFETIME |-> 0 ]
  /\ issued = { SignupToken(1), SignupToken(2) }
  /\ inflight = [ s \in Slots |-> Idle ]
  /\ last = Quiet

NextNoteService ==
  \/ NextNotes
  \/ \E headers \in BadHeaders \cup IssuedHeaders : DeleteCurrentUser(headers)
  \/ Tick
  \/ Settle

SpecNotes == InitNotes /\ [][NextNoteService]_vars

(***************************************************************************)
(* The note service at the length bounds of its fields: titles of 50 and   *)
(* 51 characters, texts of 300 and 301, empty and missing fields, created  *)
(* and updated by the two registered users.                                *)
(***************************************************************************)
Title50 == [ i \in 1..50 |-> "t" ]
Title51 == [ i \in 1..51 |-> "t" ]
Text300 == [ i \in 1..300 |-> "x" ]
Text301 == [ i \in 1..301 |-> "x" ]

BoundaryCreateBodies ==
  { [ title |-> Title50, text |-> Text300 ],
    [ title |-> Title51, text |-> Text1 ],
    [ title |-> Title1, text |-> Text301 ],
    [ title |-> << >>, text |-> Text1 ],
    [ title |-> Title1, text |-> << >> ],
    [ title |-> Title1 ],
    [ text |-> Text1 ] }

BoundaryUpdateBodies ==
  { [ title |-> Title50 ],
    [ title |-> Title51 ],
    [ text |-> Text300 ],
    [ text |-> Text301 ],
    [ title |-> << >> ],
    [ title |-> Title1, text |-> Text301 ],
    [ title |-> Title1, text |-> Text1 ],
    EmptyObject }

NextNoteBounds ==
  \/ \E headers \in IssuedHeaders, body \in BoundaryCreateBodies : CreateNote(headers, body)
  \/ \E headers \in IssuedHeaders, query \in UpdateQueries, body \in BoundaryUpdateBodies :
        UpdateNote(headers, query, body)
  \/ \E s \in Slots : UpdateNoteWrite(s)
  \/ Settle

SpecNoteBounds == InitNotes /\ [][NextNoteBounds]_vars

(***************************************************************************)
(* The application server.js builds: the routes it mounts, and Express's   *)
(* answer to a request no route matches.                                   *)
(***************************************************************************)
\* the handler app dispatches a request to: the routes of userRoutes under
\* /api/user, the start page, and nothing else
appRoutes(method, path) ==
  IF method = "POST" /\ path = "/api/user/signup" THEN "signup"
  ELSE IF method = "POST" /\ path = "/api/user/login" THEN "login"
  ELSE IF method = "DELETE" /\ path = "/api/user/delete" THEN "deleteCurrentUser"
  ELSE IF method = "GET" /\ path = "/" THEN "startPage"
  ELSE "none"

\* Express's answer when no route matches: 404 with an HTML page
CannotServe(method, path) ==
  [ statusCode |-> 404, body |-> [ html |-> "Cannot " \o method \o " " \o path ] ]

\* the requests clients send to the server
Endpoints ==
  { << "POST", "/api/user/signup" >>, << "POST", "/api/user/login" >>,
    << "DELETE", "/api/user/delete" >>, << "GET", "/" >>,
    << "GET", "/api/notes" >>, << "POST", "/api/notes" >>,
    << "PUT", "/api/notes" >>, << "DELETE", "/api/notes" >>,
    << "GET", "/api/notes/search" >> }

\* one request arriving at app: dispatched to its route's handler, or
\* answered by Express when no route matches
Serve(method, path, headers, body, query) ==
  LET handler == appRoutes(method, path) IN
  IF handler = "signup" THEN Signup(body)
  ELSE IF handler = "login" THEN Login(body)
  ELSE IF handler = "deleteCurrentUser" THEN DeleteCurrentUser(headers)
  ELSE /\ last = Quiet
       /\ last' = Step(IF handler = "startPage" THEN "startPage" ELSE "unknownRoute",
                       [ headers |-> headers, body |-> body, query |-> query,
                         method |-> method, path |-> path ],
                       NoUser, << >>,
                       IF handler = "startPage"
                       THEN [ statusCode |-> 200,
                              body |-> [ text |-> "Swing Notes API is running!" ] ]
                       ELSE CannotServe(method, path))
       /\ UNCHANGED << users, notes, nextUserId, nextNoteId, now, dbNow, env, issued,
                       inflight >>

NextServer ==
  \/ \E e \in Endpoints, headers \in { EmptyObject } \cup IssuedHeaders,
        body \in { [ username |-> "alice", password |-> "secret1" ],
                   [ username |-> "carol", password |-> "secret1" ],
                   [ title |-> Title1, text |-> Text1 ] },
        query \in { EmptyObject, [ id |-> 1 ] } :
        Serve(e[1], e[2], headers, body, query)
  \/ \E s \in Slots : SignupInsert(s)
  \/ Tick
  \/ Settle

SpecServer == InitNotes /\ [][NextServer]_vars

(***************************************************************************)
(* Deleting an account and registering its username again, with the note   *)
(* operations tried with every token that was issued, the deleted          *)
(* account's included.  No token expires here.                             *)
(***************************************************************************)
NextReRegister ==
  \/ \E headers \in IssuedHeaders : DeleteCurrentUser(headers)
  \/ Signup([ username |-> "alice", password |-> "secret1" ])
  \/ \E s \in Slots : SignupInsert(s)
  \/ \E headers \in IssuedHeaders : CreateNote(headers, [ title |-> Title1, text |-> Text1 ])
  \/ \E headers \in IssuedHeaders : GetNotes(headers, EmptyObject)
  \/ \E headers \in IssuedHeaders : SearchNotes(headers, [ q |-> << "g" >> ])
  \/ \E headers \in IssuedHeaders, query \in UpdateQueries :
        UpdateNote(headers, query, [ title |-> Title2 ])
  \/ \E s \in Slots : UpdateNoteWrite(s)
  \/ \E headers \in IssuedHeaders, query \in UpdateQueries : DeleteNote(headers, query)
  \/ \E s \in Slots : DeleteNoteWrite(s)
  \/ Settle

SpecReRegister == InitNotes /\ [][NextReRegister]_vars

(***************************************************************************)
(* The note service together with login and refused signups: the requests  *)
(* that read, and the requests that are refused, among those that write.   *)
(***************************************************************************)
NextReadersAndWriters ==
  \/ NextNoteService
  \/ \E body \in { [ username |-> "alice", password |-> "secret1" ],
                   [ username |-> "alice", password |-> "wrong-password" ],
                   EmptyObject } : Login(body)
  \/ Signup([ username |-> "al", password |-> "abc" ])

SpecReadersAndWriters == InitNotes /\ [][NextReadersAndWriters]_vars

\* SpecUser reaches the state SpecNotes starts from
RegisteredReached == InitNotes

-----------------------------------------------------------------------------
(***************************************************************************)
(* Properties.  `last` is the step just taken and, until Settle, the       *)
(* tables are the ones that step left: last.pre is the database before     *)
(* the step, users and notes the database after it.                        *)
(***************************************************************************)
\* the subject of the token a request carries, when the token is signed with
\* the deployment secret; NoUser otherwise
Subject(req) ==
  LET t == BearerToken(req.headers) IN
  IF t # Null /\ DOMAIN t = {"payload", "sig"} /\ t.sig = Sign(t.payload, env.JWT_SECRET)
  THEN t.payload.id
  ELSE NoUser

Fail(code, message) ==
  [ statusCode |-> code, body |-> [ status |-> "fail", message |-> message ] ]

Answered == last.res # NoResponse

\* the step is the insert of a signup whose username another signup took
\* after this one's availability check
LostSignupRace ==
  /\ last.op = "signup"
  /\ last.calls = << "createUser" >>
  /\ \E u \in last.pre.users : u.username = last.req.body.username

\* C1: two register calls for the same free username, run concurrently: in
\* every interleaving of their availability checks and inserts one call
\* succeeds and the other is answered 409 Conflict with status "fail", never
\* 500.  Stated for every answer a signup with valid input gets.
C1_ConcurrentSignupConflict ==
  (last.op = "signup" /\ Answered /\ validate(signupSchema, last.req.body).ok)
    => /\ last.res.statusCode \in {201, 409}
       /\ last.res.statusCode = 409 => last.res.body.status = "fail"
       /\ \A u, w \in users : u.username = w.username => u = w

\* C1, its case: a signup lost the race and was answered
C1_LostRaceAnswered == LostSignupRace /\ Answered

\* the row of last.pre.notes with this id is gone after the step
Removed(n) == \A m \in notes : m.id # n.id
\* the row with this id is still there after the step, and differs
Altered(n) == \E m \in notes : m.id = n.id /\ m # n

\* C2: a note's title and text change only in an updateNote whose verified
\* caller (the subject of the request's token) is the note's owner, and a
\* note is removed only by its owner's deleteNote or by the cascade of its
\* owner's deleteAccount; no step of another caller alters or removes it.
C2_OnlyOwnerMutates ==
  \A n \in last.pre.notes :
    /\ Altered(n) => /\ last.op = "updateNote"
                     /\ Subject(last.req) = n.user_id
                     /\ last.req.query.id = n.id
    /\ Removed(n) => \/ /\ last.op = "deleteNote"
                        /\ Subject(last.req) = n.user_id
                        /\ last.req.query.id = n.id
                     \/ /\ last.op = "deleteCurrentUser"
                        /\ Subject(last.req) = n.user_id

\* C2, its case: the owner's updateNote has changed the note, with another
\* user registered
C2_OwnerUpdated ==
  /\ last.op = "updateNote"
  /\ last.res.statusCode = 200
  /\ \E n \in last.pre.notes : Altered(n)
  /\ \E u \in users : u.id # last.user

\* the step is the ownership lookup of updateNote or deleteNote
IsLookup ==
  /\ last.op \in {"updateNote", "deleteNote"}
  /\ last.calls = << "getNoteByIdAndUserId" >>

\* the id the step asks for is a note of somebody else
TargetOfAnother ==
  \E n \in last.pre.notes : n.id = last.req.query.id /\ n.user_id # Subject(last.req)

\* the id the step asks for matches no note at all
TargetAbsent == \A n \in last.pre.notes : n.id # last.req.query.id

NotFoundOf(op) ==
  IF op = "updateNote"
  THEN Fail(404, "Note not found or you do not have permission to update it.")
  ELSE Fail(404, "Note not found or you do not have permission to delete it.")

\* C3: updateNote or deleteNote on the id of another user's note is answered
\* the 404 that the same operation on an id matching no note is answered,
\* same status and same message; and listNotes and searchNotes return only
\* notes of the caller.
C3_OthersNoteLooksAbsent ==
  /\ (IsLookup /\ (TargetOfAnother \/ TargetAbsent)) => last.res = NotFoundOf(last.op)
  /\ (last.op \in {"getNotes", "searchNotes"} /\ last.res.statusCode = 200)
       => \A i \in DOMAIN last.res.body.data :
            last.res.body.data[i].user_id = Subject(last.req)

\* C3, its case: the caller asked for a note that exists and is another user's
C3_AskedForOthersNote == IsLookup /\ TargetOfAnother /\ Answered

\* the password the user with this name registered with is not the one given
WrongPassword(body) ==
  \E u \in last.pre.users :
    u.username = body.username /\ u.password_hash # Hash(body.password)

UnknownUser(body) == \A u \in last.pre.users : u.username # body.username

\* C4: login with an existing username and a wrong password, and login with
\* a username that does not exist, are both answered 401 "Invalid
\* credentials." with status "fail".
C4_LoginFailuresAlike ==
  (/\ last.op = "login"
   /\ last.calls # << >>
   /\ (WrongPassword(last.req.body) \/ UnknownUser(last.req.body)))
    => last.res = Fail(401, "Invalid credentials.")

\* C4, its case: a login with the wrong password for an existing user, while
\* the other username is unknown
C4_WrongPasswordSeen ==
  /\ last.op = "login"
  /\ last.calls # << >>
  /\ WrongPassword(last.req.body)
  /\ \E name \in {"alice", "bob"} : \A u \in users : u.username # name

\* the signup step that inserted a row
Registered == last.op = "signup" /\ last.calls = << "createUser" >> /\ ~LostSignupRace

\* C5: a signup with valid input that creates the user record is answered 201
\* with {id, username, token}: id is the id of the record just created, the
\* token's subject is that id, and authMiddleware, given the token at any
\* time before its expiry, sets req.user.id to that id.
C5_SignupTokenIsTheUser ==
  Registered =>
    /\ last.res.statusCode = 201
    /\ DOMAIN last.res.body.data = {"id", "username", "token"}
    /\ LET d == last.res.body.data IN
       /\ \E u \in users \ last.pre.users :
            /\ u.id = d.id
            /\ u.username = d.username
            /\ u.username = last.req.body.username
       /\ d.token.payload.id = d.id
       /\ d.token.payload.exp = last.at + JwtLifetime
       /\ \A t \in last.at..(d.token.payload.exp - 1) :
            authMiddleware(Request(Bearer(d.token), EmptyObject, EmptyObject), config, t)
              = [ ok |-> TRUE, user |-> [ id |-> d.id ] ]

\* C5, its case: a signup was answered 201 after the clock had advanced
C5_SignupAnswered == Registered /\ last.res.statusCode = 201 /\ last.at > 0

\* the operations behind authMiddleware
Protected ==
  { "deleteCurrentUser", "createNote", "getNotes", "updateNote", "deleteNote",
    "searchNotes" }

\* the request carries no bearer token
NoBearer(req) == BearerToken(req.headers) = Null

\* the request carries a bearer token that is malformed or not signed with
\* the deployment secret
BadToken(req) ==
  LET t == BearerToken(req.headers) IN
  /\ t # Null
  /\ \/ DOMAIN t # {"payload", "sig"}
     \/ t.sig # Sign(t.payload, env.JWT_SECRET)

\* the request carries a token signed with the deployment secret
Signed(req) == ~NoBearer(req) /\ ~BadToken(req)

\* C6: a protected operation reaches its handler, a service or a storage call
\* only with a token signed with the deployment secret and not expired when
\* authMiddleware saw it; the identity the handler works with, and the owner
\* of what it writes, is the token's subject, whatever user_id the body or
\* the query names.  Stated for the step just taken and for every suspended
\* request.
C6_OnlyVerifiedCallers ==
  /\ (last.op \in Protected /\ (last.calls # << >> \/ last.user # NoUser))
       => /\ Signed(last.req)
          /\ last.authAt < BearerToken(last.req.headers).payload.exp
          /\ last.user = Subject(last.req)
  /\ (last.op \in Protected /\ (users # last.pre.users \/ notes # last.pre.notes))
       => last.calls # << >>
  /\ \A s \in Slots :
       inflight[s] # Idle /\ inflight[s].op \in Protected
         => /\ Signed(inflight[s].req)
            /\ inflight[s].at < BearerToken(inflight[s].req.headers).payload.exp
            /\ inflight[s].user = Subject(inflight[s].req)
  /\ (last.op = "createNote" /\ last.res.statusCode = 201)
       => last.res.body.data.user_id = Subject(last.req)

\* C6, its case: a protected operation ran its storage step for the token's
\* subject while the query named another user
C6_QueryNamesAnother ==
  /\ last.op \in Protected
  /\ last.calls # << >>
  /\ "user_id" \in DOMAIN last.req.query
  /\ last.req.query.user_id # last.user
  /\ last.user = Subject(last.req)

\* the request carries a token signed with the deployment secret and expired
\* when authMiddleware saw it
Expired(req, t) == Signed(req) /\ t >= BearerToken(req.headers).payload.exp

\* C7: authMiddleware answers a request without bearer token 401 "You are
\* not logged in! ...", one with a malformed token or a bad signature 401
\* "Invalid token. ...", one with an expired token 401 "Your token has
\* expired! ..."; in the three cases no handler runs (no storage call, the
\* database as before) and req.user is not set.
C7_AuthFailuresDistinguished ==
  last.op \in Protected =>
    /\ NoBearer(last.req)
         => last.res = Fail(401, "You are not logged in! Please log in to get access.")
    /\ BadToken(last.req)
         => last.res = Fail(401, "Invalid token. Please log in again.")
    /\ Expired(last.req, last.authAt)
         => last.res = Fail(401, "Your token has expired! Please log in again.")
    /\ (NoBearer(last.req) \/ BadToken(last.req) \/ Expired(last.req, last.authAt))
         => /\ last.calls = << >>
            /\ last.user = NoUser
            /\ users = last.pre.users
            /\ notes = last.pre.notes

\* C7, its case: a request with an expired token was answered, its user
\* still registered
C7_ExpiredTokenSeen ==
  /\ last.op \in Protected
  /\ Expired(last.req, last.authAt)
  /\ \E u \in users : u.id = Subject(last.req)

\* the step is a deleteAccount answered 204
AccountDeleted == last.op = "deleteCurrentUser" /\ last.res = NoContent

\* C8: after a deleteAccount of user U answered 204, the users table has no
\* row of U and the notes table no note of U; and in every state every note's
\* owner has a row in users, so that nobody reads notes of a deleted user.
C8_CascadeIsAtomic ==
  /\ AccountDeleted
       => /\ \E u \in last.pre.users : u.id = last.user
          /\ \A u \in users : u.id # last.user
          /\ \A n \in notes : n.user_id # last.user
          /\ users = { u \in last.pre.users : u.id # last.user }
          /\ notes = { n \in last.pre.notes : n.user_id # last.user }
  /\ \A n \in notes : \E u \in users : u.id = n.user_id

\* C8, its case: the deleted account had notes, and a request of another
\* operation was suspended meanwhile
C8_DeletedWithNotes ==
  /\ AccountDeleted
  /\ \E n \in last.pre.notes : n.user_id = last.user
  /\ \E s \in Slots : inflight[s] # Idle

\* the step is a deleteAccount that reached storage with no row for its caller
DeleteOfAbsent ==
  /\ last.op = "deleteCurrentUser"
  /\ last.calls = << "deleteUser" >>
  /\ \A u \in last.pre.users : u.id # last.user

\* C9: a deleteAccount whose verified caller has no user record any more is
\* answered 404 "User not found or could not be deleted." and leaves users
\* and notes as they were.
C9_DeleteAbsentIsNotFound ==
  DeleteOfAbsent
    => /\ last.res = Fail(404, "User not found or could not be deleted.")
       /\ users = last.pre.users
       /\ notes = last.pre.notes

\* C9, its case: a second deleteAccount with the same token, the database not
\* empty
C9_SecondDelete == DeleteOfAbsent /\ Answered /\ users # {} /\ notes # {}

\* C10: a token issued before its user's account was deleted still passes
\* authMiddleware until its expiry, and getNotes with it is answered 200
\* "Notes retrieved successfully!" with an empty list.
C10_TokenOutlivesAccount ==
  /\ \A tk \in issued :
       now < tk.payload.exp
         => authMiddleware(Request(Bearer(tk), EmptyObject, EmptyObject), config, now)
              = [ ok |-> TRUE, user |-> [ id |-> tk.payload.id ] ]
  /\ (/\ last.op = "getNotes"
      /\ Signed(last.req)
      /\ last.at < BearerToken(last.req.headers).payload.exp
      /\ \A u \in last.pre.users : u.id # Subject(last.req))
       => last.res = Success(200, "Notes retrieved successfully!", << >>)

\* C10, its case: getNotes by a deleted user was answered while another
\* user's notes exist
C10_DeletedUserListed ==
  /\ last.op = "getNotes"
  /\ last.calls # << >>
  /\ \A u \in users : u.id # last.user
  /\ notes # {}

\* the step is a signup whose availability check found the username taken
UsernameTaken ==
  /\ last.op = "signup"
  /\ last.calls = << "findUserByUsername" >>
  /\ \E u \in last.pre.users : u.username = last.req.body.username

\* C18: a signup whose username is taken when findUserByUsername looks is
\* answered 409 "Username already exists." in that step, which made no
\* other storage call: the request ends before bcrypt and createUser, the
\* users table is as before, the response carries no token.
C18_TakenUsernameConflict ==
  UsernameTaken
    => /\ last.res = Fail(409, "Username already exists.")
       /\ users = last.pre.users
       /\ "data" \notin DOMAIN last.res.body

\* C18, its case: a signup for a taken username was answered
C18_TakenUsernameSeen == UsernameTaken /\ Answered

\* C19: in every state no two rows of users have the same username, nor the
\* same id, however signups and account deletions interleave.
C19_UsernamesUnique ==
  \A u, w \in users : (u.username = w.username \/ u.id = w.id) => u = w

\* C19, its case: after an account was deleted, a signup lost the race for
\* its username to a concurrent one
C19_RaceAfterDelete ==
  /\ LostSignupRace
  /\ nextUserId - 1 > Cardinality(users)
  /\ users # {}

\* the passwords a user with this row can have registered with
PasswordsGivenFor(u) ==
  { b.password : b \in { c \in SignupBodies :
                           /\ DOMAIN c = {"username", "password"}
                           /\ c.username = u.username
                           /\ Hash(c.password) = u.password_hash } }

\* the login is answered 200 with the id and the username of this row and a
\* token for that id
LoggedInAs(u) ==
  /\ last.res.statusCode = 200
  /\ DOMAIN last.res.body.data = {"id", "username", "token"}
  /\ last.res.body.data.id = u.id
  /\ last.res.body.data.username = u.username
  /\ last.res.body.data.token.payload.id = u.id

\* C20: login is answered 200 with {id, username, token} of the stored user,
\* the token's subject that id, exactly when a user with that username
\* exists and the password supplied is the one the user registered with; in
\* every other case of a valid body, a deleted user's included, it is
\* answered 401.
C20_LoginIffCredentials ==
  (last.op = "login" /\ validate(loginSchema, last.req.body).ok)
    => LET body == last.req.body
           known == { u \in last.pre.users : u.username = body.username }
       IN
       /\ (\E u \in known : body.password \in PasswordsGivenFor(u))
            => \E u \in known : LoggedInAs(u)
       /\ ~(\E u \in known : body.password \in PasswordsGivenFor(u))
            => last.res.statusCode = 401

\* C20, its case: a login with a password that is not the registered one
\* was answered, the user existing
C20_OtherPasswordTried ==
  /\ last.op = "login"
  /\ validate(loginSchema, last.req.body).ok
  /\ \E u \in last.pre.users :
       /\ u.username = last.req.body.username
       /\ last.req.body.password \notin PasswordsGivenFor(u)

\* the step is the UPDATE of an updateNote answered 200
Updated == last.op = "updateNote" /\ last.res.statusCode = 200

\* the row the step's request names, before the step and after it
Before == CHOOSE n \in last.pre.notes : n.id = last.req.query.id
After == CHOOSE m \in notes : m.id = last.req.query.id

\* C11: a note's owner is the one it was created with in every later state:
\* no step, whoever's request it serves, leaves a note with another user_id
\* than it had before the step, and a note id is never given twice.
C11_OwnerNeverChanges ==
  /\ \A n \in last.pre.notes, m \in notes : n.id = m.id => m.user_id = n.user_id
  /\ \A m \in notes : m.id < nextNoteId
  /\ \A m, k \in notes : m.id = k.id => m = k

\* C11, its case: an updateNote rewrote a note while another user's request
\* for a note was suspended
C11_UpdatedAmongOthers ==
  /\ Updated
  /\ After.user_id = Before.user_id
  /\ \E s \in Slots : inflight[s] # Idle /\ inflight[s].user # last.user

\* C12: an updateNote answered 200 leaves the note's modified_at greater than
\* it was before the UPDATE, and its created_at as it was.
C12_ModifiedAtIncreases ==
  Updated => /\ After.modified_at > Before.modified_at
             /\ After.created_at = Before.created_at

\* C12, its case: an updateNote answered 200 wrote the values the note
\* already had
C12_SameValuesWritten ==
  /\ Updated
  /\ After.title = Before.title
  /\ After.text = Before.text

\* C13: an updateNote answered 200 wrote the supplied fields and no other:
\* title is the supplied one or, not supplied, the one before; the same for
\* text; id, user_id and created_at are as before; every other note is as
\* before; the note in the response is the row now stored.
C13_OnlySuppliedFieldsChange ==
  Updated =>
    LET body == last.req.body IN
    /\ After.title = IF "title" \in DOMAIN body THEN body.title ELSE Before.title
    /\ After.text = IF "text" \in DOMAIN body THEN body.text ELSE Before.text
    /\ After.id = Before.id
    /\ After.user_id = Before.user_id
    /\ After.created_at = Before.created_at
    /\ notes \ { After } = last.pre.notes \ { Before }
    /\ last.res.body.data = After

\* C13, its case: an updateNote with the title alone changed the title of a
\* note
C13_TitleAloneUpdated ==
  /\ Updated
  /\ DOMAIN last.req.body = {"title"}
  /\ After.title # Before.title
  /\ After.text = Before.text

\* the step is an updateNote of an authenticated caller with ?id= and {}
EmptyUpdate ==
  /\ last.op = "updateNote"
  /\ last.user # NoUser
  /\ "id" \in DOMAIN last.req.query
  /\ DOMAIN last.req.body = {}

\* C14: an updateNote with the payload {} is answered 400 by the validation
\* of the body, before getNoteByIdAndUserId and updateNote: the step makes
\* no storage call and the tables are as before.
C14_EmptyUpdateRejected ==
  EmptyUpdate
    => /\ last.res = Fail(400, "\"value\" must have at least 1 key")
       /\ last.calls = << >>
       /\ users = last.pre.users
       /\ notes = last.pre.notes

\* C14, its case: the empty payload was sent for a note the caller owns
C14_EmptyUpdateOfOwnNote ==
  /\ EmptyUpdate
  /\ \E n \in notes : n.id = last.req.query.id /\ n.user_id = last.user

\* the rows of a result, which holds each once
Rows(data) == { data[i] : i \in DOMAIN data }
NoRowTwice(data) == \A i, j \in DOMAIN data : i # j => data[i] # data[j]
\* the result is in the order of modified_at, latest first
LatestFirst(data) ==
  \A i, j \in DOMAIN data : i < j => data[i].modified_at >= data[j].modified_at

\* C15: getNotes answers with the notes whose user_id is the caller, each
\* once, none missing and no other, latest modified_at first.
C15_ListIsOwnNotesLatestFirst ==
  (last.op = "getNotes" /\ last.res.statusCode = 200)
    => /\ Rows(last.res.body.data) = { n \in last.pre.notes : n.user_id = last.user }
       /\ NoRowTwice(last.res.body.data)
       /\ LatestFirst(last.res.body.data)

\* C15, its case: a list of two notes, the one created first modified last
C15_UpdatedNoteListedFirst ==
  /\ last.op = "getNotes"
  /\ last.res.statusCode = 200
  /\ Len(last.res.body.data) = 2
  /\ last.res.body.data[1].created_at < last.res.body.data[2].created_at

\* term occurs in title as a substring, letters compared without case
Contains(title, term) ==
  \E i \in 0..(Len(title) - Len(term)) :
    \A k \in 1..Len(term) : Lower(title[i + k]) = Lower(term[k])

\* the step is a searchNotes that reached searchNotesByTitle
Searched == last.op = "searchNotes" /\ last.calls # << >>

\* C16: searchNotes with a term that is not blank answers with the caller's
\* notes whose title contains the term as a substring, case ignored, each
\* once, none missing and no other, latest modified_at first; this for every
\* term, those with % or _ included.
C16_SearchIsSubstringMatch ==
  Searched
    => /\ last.res.statusCode = 200
       /\ Rows(last.res.body.data)
            = { n \in last.pre.notes :
                  n.user_id = last.user /\ Contains(n.title, last.req.query.q) }
       /\ NoRowTwice(last.res.body.data)
       /\ LatestFirst(last.res.body.data)

\* C16, its case: a search whose term has a character that ILIKE reads as a
\* wildcard, the caller having a note
C16_WildcardSearched ==
  /\ Searched
  /\ \E k \in DOMAIN last.req.query.q : last.req.query.q[k] \in {"%", "_"}
  /\ \E n \in last.pre.notes : n.user_id = last.user

\* the step is a searchNotes of an authenticated caller without a term, or
\* with an empty or a blank one
BlankSearch ==
  /\ last.op = "searchNotes"
  /\ last.user # NoUser
  /\ \/ "q" \notin DOMAIN last.req.query
     \/ \A k \in DOMAIN last.req.query.q : last.req.query.q[k] = " "

\* C17: a searchNotes whose term no title of the caller's notes contains is
\* answered 200, status "success", with an empty list; a searchNotes whose
\* term is missing, empty or blank is answered 400 before any storage call.
C17_NoMatchIsEmptySuccess ==
  /\ (Searched /\ \A n \in last.pre.notes :
                    n.user_id = last.user => ~Contains(n.title, last.req.query.q))
       => /\ last.res.statusCode = 200
          /\ last.res.body.status = "success"
          /\ last.res.body.data = << >>
  /\ BlankSearch
       => /\ last.res = Fail(400, "Search query (q) is required.")
          /\ last.calls = << >>

\* C17, its case: a search whose term none of the caller's titles contains,
\* the caller having a note
C17_NoTitleContainsTerm ==
  /\ Searched
  /\ \E n \in last.pre.notes : n.user_id = last.user
  /\ \A n \in last.pre.notes :
       n.user_id = last.user => ~Contains(n.title, last.req.query.q)

-----------------------------------------------------------------------------
(***************************************************************************)
(* Errors at the boundary, configuration.                                  *)
(***************************************************************************)
\* the messages of the errors jsonwebtoken throws
LibraryMessages ==
  { "secretOrPrivateKey must have a value", "secret or public key must be provided",
    "jwt malformed", "invalid signature", "jwt expired" }

ErrorAnswered == last.res.statusCode >= 400

\* C21: every error response has the shape {status, message}; a 400, 401,
\* 404 or 409 carries status "fail"; every internal error (500), the one of
\* an unexpected exception that is no AppError included, carries status
\* "error" and a message that holds none of the exception's own text.
C21_ErrorsUniformAndGeneric ==
  ErrorAnswered =>
    /\ DOMAIN last.res.body = { "status", "message" }
    /\ last.res.statusCode \in { 400, 401, 404, 409, 500 }
    /\ last.res.statusCode < 500 => last.res.body.status = "fail"
    /\ last.res.statusCode = 500 =>
         /\ last.res.body.status = "error"
         /\ last.res.body.message \notin LibraryMessages

\* jwt.sign threw in signup and errorHandler answered with its message
C21_LibraryErrorAnswered ==
  /\ last.op = "signup"
  /\ last.calls = << "createUser" >>
  /\ last.res.statusCode = 500
  /\ last.res.body.message = "secretOrPrivateKey must have a value"

SecretAbsent == config.secret = ""

\* C22: while the signing secret is absent no request is served, and in
\* particular no signup persists a user record.
C22_NoSecretNothingServed ==
  SecretAbsent => /\ ~Answered
                  /\ users = {}

\* a signup stored its user although the secret is absent
C22_UserStoredWithoutSecret ==
  /\ SecretAbsent
  /\ last.op = "signup"
  /\ \E u \in users : u.username = last.req.body.username /\ u \notin last.pre.users

-----------------------------------------------------------------------------
(***************************************************************************)
(* Validation.                                                             *)
(***************************************************************************)
\* the schema the handler of last.op validates the body with
SchemaOf(op) == IF op = "signup" THEN signupSchema ELSE loginSchema

\* the fields of the schema the data is missing or holds an invalid value for
InvalidFields(schema, data) ==
  { i \in 1..Len(schema.keys) :
      LET r == schema.keys[i] IN
      IF r.key \notin DOMAIN data THEN r.required
      ELSE \/ Len(data[r.key]) = 0
           \/ r.min > 0 /\ Len(data[r.key]) < r.min
           \/ r.max > 0 /\ Len(data[r.key]) > r.max }

\* the messages the schema has for a field
MessagesOf(r) == { r.msgMin, r.msgMax, r.msgEmpty, r.msgRequired } \ { "" }

\* sub occurs in str
Occurs(sub, str) ==
  \E i \in 1..(Len(str) - Len(sub) + 1) : SubSeq(str, i, i + Len(sub) - 1) = sub

\* the number of messages joined in str
Joined(str) == 1 + Cardinality({ i \in 1..(Len(str) - 1) : SubSeq(str, i, i + 1) = ", " })

ValidSignup(body) ==
  /\ { "username", "password" } \subseteq DOMAIN body
  /\ Len(body.username) >= 3
  /\ Len(body.username) <= 50
  /\ Len(body.password) >= 6

\* C24: a signup reaches storage (its first call is the availability
\* lookup) if and only if the username has 3 to 50 characters and the
\* password at least 6; every other body is answered 400 with no storage
\* call made and the tables as they were.
C24_SignupReachesStorageIffValid ==
  last.op = "signup" =>
    IF ValidSignup(last.req.body)
    THEN last.calls \in { << "findUserByUsername" >>, << "createUser" >> }
    ELSE /\ last.calls = << >>
         /\ last.res.statusCode = 400
         /\ users = last.pre.users
         /\ notes = last.pre.notes

\* a username of exactly 50 characters with a password of exactly 6 passed
\* to the availability lookup
C24_LongestUsernameAccepted ==
  /\ last.op = "signup"
  /\ ValidSignup(last.req.body)
  /\ Len(last.req.body.username) = 50
  /\ Len(last.req.body.password) = 6
  /\ last.calls = << "findUserByUsername" >>

TitleOk(title) == Len(title) >= 1 /\ Len(title) <= 50
TextOk(text) == Len(text) >= 1 /\ Len(text) <= 300

\* a createNote body of a title of 1 to 50 and a text of 1 to 300 characters
ValidCreate(body) ==
  /\ { "title", "text" } \subseteq DOMAIN body
  /\ TitleOk(body.title)
  /\ TextOk(body.text)

\* an updateNote body with at least one of title and text, each within its bound
ValidUpdate(body) ==
  /\ DOMAIN body \cap { "title", "text" } # {}
  /\ "title" \in DOMAIN body => TitleOk(body.title)
  /\ "text" \in DOMAIN body => TextOk(body.text)

\* C25: for a verified caller and a body of title and text fields only, a
\* createNote reaches storage if and only if the title has 1 to 50 and the
\* text 1 to 300 characters, and an updateNote with a note id reaches storage
\* if and only if at least one of title and text is present and each present
\* one is within its bound; a body that is not accepted is answered 400.
\* Every stored note has a title of 1 to 50 and a text of 1 to 300 characters.
C25_NoteFieldsWithinBounds ==
  /\ last.op = "createNote" /\ last.user # NoUser
       /\ DOMAIN last.req.body \subseteq { "title", "text" } =>
       IF ValidCreate(last.req.body)
       THEN last.calls = << "createNote" >>
       ELSE last.calls = << >> /\ last.res.statusCode = 400
  /\ last.op = "updateNote" /\ last.user # NoUser /\ "id" \in DOMAIN last.req.query
       /\ DOMAIN last.req.body \subseteq { "title", "text" } =>
       IF ValidUpdate(last.req.body)
       THEN last.calls \in { << "getNoteByIdAndUserId" >>, << "updateNote" >> }
       ELSE last.calls = << >> /\ last.res.statusCode = 400
  /\ \A n \in notes : TitleOk(n.title) /\ TextOk(n.text)

\* a title of 51 characters was refused for a note stored with a title of 50
\* and a text of 300 characters
C25_BoundaryNoteStored ==
  /\ last.op = "updateNote"
  /\ "title" \in DOMAIN last.req.body
  /\ Len(last.req.body.title) = 51
  /\ last.res.statusCode = 400
  /\ \E n \in notes : n.id = last.req.query.id /\ Len(n.title) = 50 /\ Len(n.text) = 300

-----------------------------------------------------------------------------
(***************************************************************************)
(* Creating notes.                                                         *)
(***************************************************************************)
\* C26: a createNote that succeeds adds exactly one note to the table, the
\* one it returns: owned by the subject of the caller's token, holding the
\* title and text of the body, with an id no note had before and with
\* created_at and modified_at; a createNote that fails adds none.  No other
\* note changes either way.
C26_CreateAddsOneOwnNote ==
  last.op = "createNote" =>
    IF last.res.statusCode = 201
    THEN LET row == last.res.body.data IN
         /\ notes = last.pre.notes \cup { row }
         /\ \A n \in last.pre.notes : n.id # row.id
         /\ row.user_id = Subject(last.req)
         /\ row.user_id # NoUser
         /\ row.title = last.req.body.title
         /\ row.text = last.req.body.text
         /\ DOMAIN row = { "id", "user_id", "title", "text", "created_at", "modified_at" }
         /\ DOMAIN last.req.body = { "title", "text" }
    ELSE notes = last.pre.notes

\* a note was created while the table held a note of another user
C26_CreatedBesideOthers ==
  /\ last.op = "createNote"
  /\ last.res.statusCode = 201
  /\ \E n \in last.pre.notes : n.user_id # last.res.body.data.user_id

-----------------------------------------------------------------------------
(***************************************************************************)
(* Concurrent note mutations.                                              *)
(***************************************************************************)
\* the step is the storage statement (UPDATE or DELETE) of a suspended request
WriteOf(op) == last.op = op /\ last.calls = << op >>

\* the note the step's request names is stored, as its caller's, before the step
TargetStored ==
  \E n \in last.pre.notes : n.id = last.req.query.id /\ n.user_id = last.user

\* C27: the UPDATE of an owner's updateNote whose note is stored succeeds,
\* whatever other updateNote wrote the note since this request looked it up:
\* it is answered 200 and leaves each supplied field with the value it
\* supplied and each field it did not supply as the write before left it.
\* So of two concurrent updateNote both succeed and each field ends with the
\* value of the last UPDATE that supplied it.
C27_LastWriteWins ==
  WriteOf("updateNote") /\ TargetStored =>
    LET body == last.req.body IN
    /\ last.res.statusCode = 200
    /\ last.res.body.data = After
    /\ After.title = IF "title" \in DOMAIN body THEN body.title ELSE Before.title
    /\ After.text = IF "text" \in DOMAIN body THEN body.text ELSE Before.text

\* the second of two concurrent updateNote wrote: it supplied the text only,
\* and the title is the one an updateNote wrote that began after this one
\* and wrote before it
C27_SecondOfTwoWrote ==
  /\ WriteOf("updateNote")
  /\ last.res.statusCode = 200
  /\ last.req.body = [ text |-> Text2 ]
  /\ Before.modified_at > After.modified_at
  /\ After.title = Title2
  /\ After.text = Text2

\* C28: a deleteNote of a verified caller that names a note id either
\* removes the note and is answered 204, or is answered 404 and removes
\* nothing; it is never answered with an internal error, also when another
\* deleteNote or a deleteCurrentUser removed the note after this request
\* looked it up.
C28_DeleteRemovesOrNotFound ==
  last.op = "deleteNote" /\ Answered /\ last.user # NoUser
    /\ "id" \in DOMAIN last.req.query =>
    \/ /\ last.res = NoContent
       /\ TargetStored
       /\ notes = { n \in last.pre.notes : n.id # last.req.query.id }
    \/ /\ last.res.statusCode = 404
       /\ last.res.body.status = "fail"
       /\ notes = last.pre.notes

\* the DELETE of a deleteNote found the note gone: it was removed after the
\* request's ownership lookup
C28_LostDeleteRace ==
  /\ WriteOf("deleteNote")
  /\ ~TargetStored
  /\ Answered

\* C29: the UPDATE of an updateNote whose note is absent when it executes
\* (removed after the request's ownership lookup) is answered 404 with
\* status "fail", never with an internal error, and writes nothing.
C29_UpdateOfRemovedIsNotFound ==
  WriteOf("updateNote") /\ ~TargetStored =>
    /\ last.res.statusCode = 404
    /\ last.res.body.status = "fail"
    /\ notes = last.pre.notes

\* the UPDATE of an updateNote found the note gone
C29_TargetGoneAtWrite ==
  /\ WriteOf("updateNote")
  /\ ~TargetStored
  /\ Answered

-----------------------------------------------------------------------------
(***************************************************************************)
(* Missing identifiers.                                                    *)
(***************************************************************************)
\* C30: an updateNote or deleteNote of a verified caller whose query has no
\* id is answered 400 with the message that asks for the id, whatever the
\* body is (the body is not validated first), with no storage call made and
\* the tables as they were.
C30_MissingIdIsBadRequest ==
  last.op \in { "updateNote", "deleteNote" } /\ last.user # NoUser
    /\ "id" \notin DOMAIN last.req.query =>
    /\ last.res = Fail(400, "Note ID is required as a query parameter (e.g., ?id=...)")
    /\ last.calls = << >>
    /\ notes = last.pre.notes
    /\ users = last.pre.users

\* an updateNote with no id and a body validation refuses was answered
C30_NoIdAndInvalidBody ==
  /\ last.op = "updateNote"
  /\ last.user # NoUser
  /\ "id" \notin DOMAIN last.req.query
  /\ ~validate(updateNoteSchema, last.req.body).ok
  /\ Answered

-----------------------------------------------------------------------------
(***************************************************************************)
(* Token lifetime.                                                         *)
(***************************************************************************)
ExpiredAnswer == AppError("Your token has expired! Please log in again.", 401)

\* what authMiddleware makes, in this state, of a request with the token
Judged(token) == authMiddleware(Request(Bearer(token), EmptyObject, EmptyObject), config, now)

\* every token the server issued expires its lifetime after its issue, is
\* accepted while the clock is before the expiry and rejected as expired from
\* then on; a protected step ran for a caller only if the clock was before
\* the token's expiry when authMiddleware saw it
ExpiryDecides ==
  /\ \A t \in issued :
       /\ t.payload.exp = t.payload.iat + JwtLifetime
       /\ IF now < t.payload.exp
          THEN Judged(t) = [ ok |-> TRUE, user |-> [ id |-> t.payload.id ] ]
          ELSE Judged(t) = [ ok |-> FALSE, error |-> ExpiredAnswer ]
  /\ last.op \in Protected /\ Signed(last.req) =>
       IF last.authAt < BearerToken(last.req.headers).payload.exp
       THEN last.user = Subject(last.req)
       ELSE last.res = errorHandler(ExpiredAnswer) /\ last.user = NoUser

\* a token rejected as expired is rejected as expired after the step as well
StaysExpired ==
  \A t \in issued :
    Judged(t) = [ ok |-> FALSE, error |-> ExpiredAnswer ]
      => Judged(t)' = [ ok |-> FALSE, error |-> ExpiredAnswer ]

\* C31: authMiddleware accepts a token only while the clock is before its
\* expiry, which is its issue time plus the configured lifetime (one hour);
\* a token that is rejected as expired is rejected as expired on every later
\* request.
C31_AcceptedOnlyBeforeExpiry == [] ExpiryDecides /\ [][StaysExpired]_vars

\* a request was rejected as expired whose token had been accepted before:
\* a request with the same token is still suspended at its storage call
C31_ExpiredAfterAccepted ==
  /\ last.op \in Protected
  /\ last.res = errorHandler(ExpiredAnswer)
  /\ \E s \in Slots : inflight[s] # Idle /\ inflight[s].req.headers = last.req.headers

-----------------------------------------------------------------------------
(***************************************************************************)
(* What responses hold.                                                    *)
(***************************************************************************)
NoteColumns == { "id", "user_id", "title", "text", "created_at", "modified_at" }

\* the response's text holds the password the request gave
EchoesPassword ==
  /\ "password" \in DOMAIN last.req.body
  /\ Len(last.req.body.password) > 0
  /\ "message" \in DOMAIN last.res.body
  /\ Occurs(last.req.body.password, last.res.body.message)

\* C32: no response holds a password or a password hash: its body has only
\* status, message and data; the message does not repeat the request's
\* password; the data of a signup or login response is exactly id, username
\* and a token whose payload is id, iat and exp; the data of every other
\* response is note rows.
C32_NoCredentialInResponses ==
  Answered =>
    /\ DOMAIN last.res.body \subseteq { "status", "message", "data" }
    /\ ~EchoesPassword
    /\ "data" \in DOMAIN last.res.body =>
         LET data == last.res.body.data IN
         IF last.op \in { "signup", "login" }
         THEN /\ DOMAIN data = { "id", "username", "token" }
              /\ data.id \in UserIds
              /\ data.username = last.req.body.username
              /\ DOMAIN data.token = { "payload", "sig" }
              /\ DOMAIN data.token.payload = { "id", "iat", "exp" }
         ELSE IF last.op \in { "getNotes", "searchNotes" }
         THEN \A i \in DOMAIN data : DOMAIN data[i] = NoteColumns
         ELSE DOMAIN data = NoteColumns

\* a login was answered 200 after userService.login fetched the users row,
\* password_hash included
C32_LoginFetchedRow ==
  /\ last.op = "login"
  /\ last.res.statusCode = 200
  /\ last.calls = << "findUserByUsername" >>
  /\ \E u \in users : u.username = last.req.body.username
                      /\ "password_hash" \in DOMAIN u

-----------------------------------------------------------------------------
(***************************************************************************)
(* The routes of the running server.                                       *)
(***************************************************************************)
NoteMethods == { "GET", "POST", "PUT", "DELETE" }

\* C33: a GET, POST, PUT or DELETE request to /api/notes with a token the
\* server accepts is dispatched to a note controller; it is not answered as
\* an unknown route.
C33_NoteRoutesServed ==
  last.op = "unknownRoute" =>
    ~ /\ last.req.path = "/api/notes"
      /\ last.req.method \in NoteMethods
      /\ Subject(last.req) # NoUser
      /\ authMiddleware(last.req, config, last.at).ok

\* alice, registered and with her token, asked GET /api/notes and Express
\* answered 404
C33_ListAnsweredUnknown ==
  /\ last.op = "unknownRoute"
  /\ last.req.method = "GET"
  /\ last.req.path = "/api/notes"
  /\ last.req.headers = Bearer(SignupToken(1))
  /\ AliceRow \in users
  /\ last.res.statusCode = 404

-----------------------------------------------------------------------------
(***************************************************************************)
(* Registration as a whole.                                                *)
(***************************************************************************)
\* C34: a signup changes the users table only if it is answered 201: whenever
\* it is answered with an error of any kind (validation, conflict, storage,
\* or the token that cannot be issued after the insert) the table is as it
\* was before the step.
C34_SignupAllOrNothing ==
  last.op = "signup" /\ users # last.pre.users => last.res.statusCode = 201

\* a signup was answered with an error after createUser had stored its row
C34_ErrorAfterInsert ==
  /\ last.op = "signup"
  /\ last.calls = << "createUser" >>
  /\ last.res.statusCode >= 400
  /\ \E u \in users \ last.pre.users : u.username = last.req.body.username

-----------------------------------------------------------------------------
(***************************************************************************)
(* Referential integrity.                                                  *)
(***************************************************************************)
\* the users table has a row with this id
Exists(userId, table) == \E u \in table : u.id = userId

\* C35: in every state every stored note's user_id is the id of a stored
\* user; a createNote whose token is accepted but whose account is deleted
\* when the INSERT executes is answered with an error and stores no note.
C35_NotesHaveOwners ==
  /\ \A n \in notes : Exists(n.user_id, users)
  /\ last.op = "createNote" /\ last.user # NoUser /\ ~Exists(last.user, last.pre.users) =>
       /\ last.res.statusCode >= 400
       /\ notes = last.pre.notes

\* a createNote with the accepted token of a deleted account reached the INSERT
C35_CreateAfterAccountDeleted ==
  /\ last.op = "createNote"
  /\ last.user # NoUser
  /\ ~Exists(last.user, last.pre.users)
  /\ last.calls = << "createNote" >>
  /\ Answered

-----------------------------------------------------------------------------
(***************************************************************************)
(* A username registered again.                                            *)
(***************************************************************************)
\* the step is a note operation that reads or changes stored notes
NoteAccess == last.op \in { "getNotes", "searchNotes", "updateNote", "deleteNote" }

\* a note operation whose accepted token names no stored user sees and
\* changes no note: a list or search returns nothing, an update or delete
\* does not succeed, the table is as before
OrphanTokenReachesNothing ==
  NoteAccess /\ last.user # NoUser /\ ~Exists(last.user, last.pre.users) =>
    /\ last.user = Subject(last.req)
    /\ notes = last.pre.notes
    /\ last.op \in { "getNotes", "searchNotes" } => last.res.body.data = << >>
    /\ last.op \in { "updateNote", "deleteNote" } /\ Answered => last.res.statusCode >= 400

\* a signup answered 201 gives an id that no token issued before names
NewIdIsFresh ==
  last'.op = "signup" /\ last'.res.statusCode = 201 =>
    /\ \A t \in issued : t.payload.id # last'.res.body.data.id
    /\ \A u \in users : u.id # last'.res.body.data.id

\* C36: a user registered with the username of a deleted account gets an id
\* that the deleted account did not have; a token issued to the deleted
\* account still names the old id, so a list, search, update or delete with
\* it reaches no note of the new user.
C36_OldTokenNamesOldId == [] OrphanTokenReachesNothing /\ [][NewIdIsFresh]_vars

\* the token of the deleted alice listed notes while the alice registered
\* after her holds a note
C36_OldTokenListedBesideNewUser ==
  /\ last.op = "getNotes"
  /\ last.req.headers = Bearer(SignupToken(1))
  /\ last.user = 1
  /\ \E u \in users : /\ u.username = "alice"
                      /\ u.id # 1
                      /\ \E n \in notes : n.user_id = u.id

-----------------------------------------------------------------------------
(***************************************************************************)
(* Deleted notes.                                                          *)
(***************************************************************************)
\* no stored note has this id
Absent(id, table) == \A n \in table : n.id # id

\* a deleteNote answered 204 removed its note and left every other note as
\* it was; a list or search returns only stored notes; the ownership lookup
\* of an updateNote or deleteNote whose id names no stored note is answered
\* 404, whoever asks, and changes nothing
DeletedIsGone ==
  /\ last.op = "deleteNote" /\ last.res = NoContent =>
       /\ ~Absent(last.req.query.id, last.pre.notes)
       /\ notes = { n \in last.pre.notes : n.id # last.req.query.id }
  /\ last.op \in { "getNotes", "searchNotes" } /\ last.res.statusCode = 200 =>
       \A i \in DOMAIN last.res.body.data : last.res.body.data[i] \in last.pre.notes
  /\ last.op \in { "updateNote", "deleteNote" }
       /\ last.calls = << "getNoteByIdAndUserId" >>
       /\ Absent(last.req.query.id, last.pre.notes) =>
       /\ last.res.statusCode = 404
       /\ last.res.body.status = "fail"
       /\ notes = last.pre.notes

\* no step stores a note under an id that was handed out and is absent
StaysDeleted ==
  \A i \in 1..(nextNoteId - 1) : Absent(i, notes) => Absent(i, notes')

\* C37: after a deleteNote that succeeded its note is never stored again, so
\* no later list or search returns it and every later updateNote or
\* deleteNote on its id is answered 404 at the ownership lookup; the delete
\* leaves the owner's other notes as they were.
C37_DeletedNoteStaysGone == [] DeletedIsGone /\ [][StaysDeleted]_vars

\* with both accounts still registered, a deleteNote asked for an id whose
\* note an earlier deleteNote removed, by a caller who holds another note
C37_DeletedNoteAskedAgain ==
  /\ last.op = "deleteNote"
  /\ "id" \in DOMAIN last.req.query
  /\ last.req.query.id < nextNoteId
  /\ Absent(last.req.query.id, last.pre.notes)
  /\ last.res.statusCode = 404
  /\ users = { AliceRow, BobRow }
  /\ \E n \in notes : n.user_id = last.user

-----------------------------------------------------------------------------
(***************************************************************************)
(* Requests that write nothing.                                            *)
(***************************************************************************)
\* authMiddleware refused the step's request
RefusedByAuth == last.op \in Protected /\ (NoBearer(last.req) \/ BadToken(last.req)
                                           \/ Expired(last.req, last.authAt))

\* validation refused the step's body
RefusedByValidation ==
  \/ last.op = "signup" /\ ~validate(signupSchema, last.req.body).ok
  \/ last.op = "login" /\ ~validate(loginSchema, last.req.body).ok
  \/ last.op = "createNote" /\ last.user # NoUser
       /\ ~validate(createNoteSchema, last.req.body).ok
  \/ last.op = "updateNote" /\ last.user # NoUser
       /\ ~validate(updateNoteSchema, last.req.body).ok

\* C38: a login, a list and a search, answered with success or with an
\* error, and every request that authMiddleware or validation refuses, leave
\* the users table and the notes table as they were before the step.
C38_ReadersAndRefusedWriteNothing ==
  last.op \in { "login", "getNotes", "searchNotes" } \/ RefusedByAuth \/ RefusedByValidation =>
    /\ users = last.pre.users
    /\ notes = last.pre.notes

\* a login succeeded while notes are stored and a request is suspended at
\* its storage call
C38_LoginAmongWriters ==
  /\ last.op = "login"
  /\ last.res.statusCode = 200
  /\ notes # {}
  /\ \E s \in Slots : inflight[s] # Idle

=============================================================================
